---- MODULE Spec2Model ----
(***************************************************************************)
(* ts-odoorpc: the Environment / Model / RecordSet triad and the client    *)
(* that carries its calls to the JSON-RPC connector.                       *)
(*                                                                         *)
(* The specifications share the variables of this module:                  *)
(*   Spec        one RecordSet, its asynchronous read / write / unlink     *)
(*               with their responses applied at the await continuation,   *)
(*               and the synchronous Proxy field access;                   *)
(*   SpecAssign  a RecordSet as browse or searchRead returned it, read and *)
(*               assigned to through the Proxy;                            *)
(*   SpecClient  the OdooClient session, the Environments derived from it, *)
(*               their Model registries and the requests that the Model    *)
(*               operations put on the wire;                               *)
(*   SpecEnv     the Environments of one session, their registries and the *)
(*               context mappings handed to callers;                       *)
(*   SpecModel   the Model operations of a session, with the continuations *)
(*               that build a RecordSet from the gateway's answer;         *)
(*   SpecFail    the Model operations of a session with gateway calls that *)
(*               fail, and reads of the RecordSets they returned;          *)
(*   SpecSession the session of a client: connect, logins and logouts that *)
(*               succeed or fail;                                          *)
(*   SpecGuard   the callers that keep using a client, an Environment, a   *)
(*               Model and a RecordSet before login and after logout;      *)
(*   SpecSets    the RecordSets of one session, derived from one another   *)
(*               by withContext;                                           *)
(*   SpecKids    a RecordSet and the single-record RecordSets made from it *)
(*               by iteration and indexed access;                          *)
(*   SpecChains  call chains that share one Environment and interleave at  *)
(*               their awaits;                                             *)
(*   SpecConn    a JsonRpcConnector on its own: calls, responses and       *)
(*               clearSession().                                           *)
(***************************************************************************)
EXTENDS Integers, Sequences, FiniteSets, Bags, TLC

\* ------------------------------------------------------------------ bounds
MaxId == 2
MaxPending == 2
MaxEnvs == 2
MaxWire == 2

\* ------------------------------------------------------- JavaScript values
\* A field value as the server returns it.  Every value has the same shape
\* so that values of different JavaScript types can be compared:
\*   t  typeof / Array.isArray tag, n  the number, s  the string,
\*   a  the elements of an array (atoms [t, n, s]).
Undefined == [t |-> "undefined", n |-> 0, s |-> "", a |-> <<>>]
Num(n) == [t |-> "number", n |-> n, s |-> "", a |-> <<>>]
Str(s) == [t |-> "string", n |-> 0, s |-> s, a |-> <<>>]
False == [t |-> "boolean", n |-> 0, s |-> "", a |-> <<>>]
Null == [t |-> "null", n |-> 0, s |-> "", a |-> <<>>]
Arr(elems) == [t |-> "array", n |-> 0, s |-> "", a |-> elems]
NumAtom(n) == [t |-> "number", n |-> n, s |-> ""]
StrAtom(s) == [t |-> "string", n |-> 0, s |-> s]

\* !v
Falsy(v) ==
    \/ v.t \in {"undefined", "null"}
    \/ v = False
    \/ v.t = "number" /\ v.n = 0
    \/ v.t = "string" /\ v.s = ""

\* The empty object {} / the empty Map.
EmptyMap == [k \in {} |-> Undefined]

\* { ...a, ...b }: the keys of both, b wins on conflict.
Spread(a, b) == [k \in (DOMAIN a) \cup (DOMAIN b) |-> IF k \in DOMAIN b THEN b[k] ELSE a[k]]

\* obj[prop] of a plain object: undefined when the key is absent.
Prop(obj, k) == IF k \in DOMAIN obj THEN obj[k] ELSE Undefined

\* ------------------------------------------------------- the remote records
Ids == 1..MaxId

\* What the server holds for record i, in two versions (the remote data can
\* change between two reads).  Version 2 carries every shape of raw value the
\* field access distinguishes.
ServerRow(i, v) ==
    IF v = 1
    THEN [f \in {"id", "name", "email"} |->
            CASE f = "id" -> Num(i)
              [] f = "name" -> Str("A")
              [] OTHER -> Str("a@x")]
    ELSE [f \in {"id", "name", "parent_id", "category_id", "child_ids", "tags", "pair", "active"} |->
            CASE f = "id" -> Num(i)
              [] f = "name" -> Str("B")
              [] f = "parent_id" -> Arr(<<NumAtom(42), StrAtom("Parent")>>)
              [] f = "category_id" -> Arr(<<NumAtom(3), NumAtom(4)>>)
              [] f = "child_ids" -> Arr(<<NumAtom(7)>>)
              [] f = "tags" -> Arr(<<NumAtom(1), NumAtom(2), NumAtom(3)>>)
              [] f = "pair" -> Arr(<<StrAtom("x"), StrAtom("y")>>)
              [] OTHER -> False]

Versions == {1, 2}

\* The field lists a caller passes to read(): none (all fields) or ['name'].
FieldLists == {<<>>, <<"name">>}

Range(s) == {s[i] : i \in DOMAIN s}

\* The server's answer for one record: the requested fields and the id.
Project(row, fields) ==
    IF fields = <<>> THEN row
    ELSE [f \in (DOMAIN row) \cap (Range(fields) \cup {"id"}) |-> row[f]]

\* The identifier lists a caller browses: none, one, several (not in
\* ascending order): <<>>, <<1>>, <<2, 1>>, ...
IdSeqs == {[i \in 1..n |-> n + 1 - i] : n \in 0..MaxId}

\* Sub-sequences of an identifier list (the records that still exist).
RECURSIVE SubSeqs(_)
SubSeqs(s) ==
    IF s = <<>> THEN {<<>>}
    ELSE LET rest == SubSeqs(Tail(s))
         IN  rest \cup {<<Head(s)>> \o r : r \in rest}

\* Every answer the gateway can give to read(ids, fields): one row per
\* record that still exists, in the order asked, each in some version.
RECURSIVE RowsFor(_, _)
RowsFor(s, fields) ==
    IF s = <<>> THEN {<<>>}
    ELSE {<<Project(ServerRow(Head(s), v), fields)>> \o r : v \in Versions, r \in RowsFor(Tail(s), fields)}

ReadReplies(sent, fields) == UNION {RowsFor(s, fields) : s \in SubSeqs(sent)}


\* ------------------------------------------------------------------ state
VARIABLES
    ids,        \* RecordSet._ids
    loaded,     \* RecordSet.loaded
    cache,      \* RecordSet.cache: record id -> the row fetched for it
    pending,    \* the gateway calls of this RecordSet that are awaited
    last,       \* the operation that completed last, and how
    connected,  \* OdooClient.connector is defined
    curEnv,     \* OdooClient._env: an index into envs, 0 when undefined
    sessCtx,    \* OdooClient._context ({} stands for undefined, spread alike)
    envs,       \* every Environment created so far
    models,     \* every Model created so far
    wire,       \* the login and logout requests that are awaited
    clast,      \* the client-side call made last: what the caller passed, what
                \* was sent, what the gateway answered, what the caller got back
    connector,  \* JsonRpcConnector.sessionId and .sessionCookie ("": undefined)
    rsets,      \* the RecordSets bound to the Models of the session
    rcalls      \* the gateway calls of those RecordSets that are awaited

rsVars == <<ids, loaded, cache, pending, last>>

clVars == <<connected, curEnv, sessCtx, envs, models, wire, clast, connector>>

prVars == <<rsets, rcalls>>

vars == <<ids, loaded, cache, pending, last, connected, curEnv, sessCtx, envs, models, wire, clast,
          connector, rsets, rcalls>>

\* new RecordSet(model, theIds), as the fields of the object.
Fresh(theIds) == [ids |-> theIds, loaded |-> FALSE, cache |-> EmptyMap]

\* What the caller of the last call passed: the Environment (e) or the Model
\* (m) called, and the arguments (0 and empty where the call has none).
\* caller names the method that called the Model on the caller's behalf
\* ("exists", or "recordset" for RecordSet.read), held is that RecordSet.
NoInput ==
    [e |-> 0, m |-> 0, name |-> "", domain |-> <<>>, fields |-> <<>>, options |-> EmptyMap,
     ids |-> <<>>, patch |-> EmptyMap, db |-> "", caller |-> "", held |-> Fresh(<<>>)]

\* What the gateway answered to the last call: a number, a list of
\* identifiers, a list of rows, the result of authenticate (uid, and
\* user_context when has is TRUE), or an error with its code.
NoReply == [kind |-> "none", n |-> 0, ids |-> <<>>, rows |-> <<>>, uid |-> Undefined, obj |-> EmptyMap, has |-> FALSE]
NumberReply(n) == [NoReply EXCEPT !.kind = "number", !.n = n]
IdsReply(theIds) == [NoReply EXCEPT !.kind = "ids", !.ids = theIds]
RowsReply(rows) == [NoReply EXCEPT !.kind = "rows", !.rows = rows]
LoginReply(result) == [NoReply EXCEPT !.kind = "login", !.uid = result.uid, !.obj = result.ctx, !.has = result.hasCtx]
ErrorReply(code) == [NoReply EXCEPT !.kind = "error", !.n = code]

\* What the last call returned to its caller: a Model (its index), a
\* boolean, a list of rows, a RecordSet, or a context mapping together with
\* the Environment whose _context is the very same object (0: none).
\* A call that failed returns nothing: it raises the error of the given code.
NoRet == [kind |-> "none", n |-> 0, b |-> FALSE, rows |-> <<>>, rs |-> Fresh(<<>>), obj |-> EmptyMap, shares |-> 0]
RetModel(m) == [NoRet EXCEPT !.kind = "model", !.n = m]
RetBool(b) == [NoRet EXCEPT !.kind = "boolean", !.b = b]
RetRows(rows) == [NoRet EXCEPT !.kind = "rows", !.rows = rows]
RetRecordSet(rs) == [NoRet EXCEPT !.kind = "recordset", !.rs = rs]
RetContext(obj, shares) == [NoRet EXCEPT !.kind = "context", !.obj = obj, !.shares = shares]
RetNumber(n) == [NoRet EXCEPT !.kind = "number", !.n = n]
Raised(code) == [NoRet EXCEPT !.kind = "error", !.n = code]

\* The connector's session fields, as new JsonRpcConnector(config) leaves them.
NoSession == [sessionId |-> "", sessionCookie |-> ""]

\* What a response says about the session: result.session_id in the body and
\* the session_id of a Set-Cookie header ("": absent).
NoSessionInfo == [body |-> "", cookie |-> ""]

\* new OdooClient(): no connector, no session, nothing created yet.
ClientInit ==
    /\ connector = NoSession
    /\ connected = FALSE
    /\ curEnv = 0
    /\ sessCtx = EmptyMap
    /\ envs = <<>>
    /\ models = <<>>
    /\ wire = <<>>
    /\ clast = [op |-> "new", out |-> "", sent |-> FALSE, calls |-> 0, req |-> <<>>,
                inp |-> NoInput, reply |-> NoReply, ret |-> NoRet,
                pre |-> [curEnv |-> 0, envs |-> <<>>]]

\* ------------------------------------------------------ RecordSet: getters
\* What a Proxy get can produce.
\*   kind   "value"  a field value (val)        "special"  undefined for then/catch/...
\*          "member" a property of the object   "single"   a one-record RecordSet (child)
\*          "noindex" undefined, index out of range
\*          "err_not_loaded" / "err_multi" / "err_multi_id"  the Error thrown
NoChild == [ids |-> <<>>, loaded |-> FALSE, cache |-> EmptyMap]
Result(kind, val, child) == [kind |-> kind, val |-> val, child |-> child]
NoResult == Result("none", Undefined, NoChild)

\* The array a getter handed to the caller; shares tells that it is the
\* RecordSet's own _ids array.
NoArray == [arr |-> <<>>, shares |-> FALSE]

\* Variant: the getter hands out the _ids array itself.
IdsGet_Shared(theIds) == [arr |-> theIds, shares |-> TRUE]

\* get ids(): [...this._ids], a new array.
IdsGet(theIds) == [arr |-> theIds, shares |-> FALSE]

\* Variant: the first identifier is returned when there are several.
IdGet_FirstOfMany(theIds) ==
    IF Len(theIds) = 0 THEN Result("value", False, NoChild)
    ELSE Result("value", Num(theIds[1]), NoChild)

\* get id()
IdGet(theIds) ==
    IF Len(theIds) = 0 THEN Result("value", False, NoChild)
    ELSE IF Len(theIds) > 1 THEN Result("err_multi_id", Undefined, NoChild)
    ELSE Result("value", Num(theIds[1]), NoChild)

\* Variant: the load state of the parent is transferred whether or not the
\* parent holds a record for the identifier.
Single_ParentLoaded(id, isLoaded, theCache) ==
    [ids |-> <<id>>, loaded |-> isLoaded,
     cache |-> IF isLoaded /\ id \in DOMAIN theCache THEN [i \in {id} |-> theCache[id]] ELSE EmptyMap]

\* model.browse(id) followed by the transfer of loaded state and cached data.
Single(id, isLoaded, theCache) ==
    IF isLoaded /\ id \in DOMAIN theCache
    THEN [ids |-> <<id>>, loaded |-> TRUE, cache |-> [i \in {id} |-> theCache[id]]]
    ELSE [ids |-> <<id>>, loaded |-> FALSE, cache |-> EmptyMap]

\* The names the get trap answers with undefined before anything else.
SpecialProps == {"then", "catch", "finally", "constructor", "toJSON"}

\* prop in target: the fields of the object, the members of RecordSet.prototype
\* and those inherited from Object.prototype.
MemberProps == {"model", "_ids", "loaded", "cache",
                "id", "ids", "length", "isLoaded", "read", "write", "unlink",
                "withContext", "fieldsGet", "createProxy",
                "toString", "valueOf", "hasOwnProperty"}

\* /^\d+$/ and parseInt(prop, 10), on the digit strings of the model.
ParseInt == [p \in {"0", "1", "2", "3", "01"} |->
                CASE p = "0" -> 0 [] p = "1" -> 1 [] p = "2" -> 2 [] p = "3" -> 3 [] OTHER -> 1]
IsDigits(p) == p \in DOMAIN ParseInt

\* Variant: every two-element array is projected, whatever its first element.
ProjectValue_AnyPair(value) ==
    IF value.t = "array" /\ Len(value.a) = 2
    THEN [t |-> value.a[1].t, n |-> value.a[1].n, s |-> value.a[1].s, a |-> <<>>]
    ELSE value

\* Many2one projection of a raw value.
ProjectValue(value) ==
    IF value.t = "array" /\ Len(value.a) = 2 /\ value.a[1].t = "number"
    THEN Num(value.a[1].n)
    ELSE value

\* Variant: the record count is checked before the load state.
FieldAccess_MultiFirst(theIds, isLoaded, theCache, prop) ==
    IF Len(theIds) # 1 THEN Result("err_multi", Undefined, NoChild)
    ELSE IF ~isLoaded THEN Result("err_not_loaded", Undefined, NoChild)
    ELSE LET id == theIds[1]
             data == IF id \in DOMAIN theCache THEN theCache[id] ELSE EmptyMap
         IN  Result("value", ProjectValue(Prop(data, prop)), NoChild)

\* Variant: cache.get(id) is used without the "|| {}" default, so that a
\* missing entry makes the property read fail (TypeError).
FieldAccess_NoDefault(theIds, isLoaded, theCache, prop) ==
    IF ~isLoaded THEN Result("err_not_loaded", Undefined, NoChild)
    ELSE IF Len(theIds) # 1 THEN Result("err_multi", Undefined, NoChild)
    ELSE LET id == theIds[1]
         IN  IF id \in DOMAIN theCache
             THEN Result("value", ProjectValue(Prop(theCache[id], prop)), NoChild)
             ELSE Result("err_type", Undefined, NoChild)

\* The field access proper, once the property is known to be none of the above.
FieldAccess(theIds, isLoaded, theCache, prop) ==
    IF ~isLoaded THEN Result("err_not_loaded", Undefined, NoChild)
    ELSE IF Len(theIds) # 1 THEN Result("err_multi", Undefined, NoChild)
    ELSE LET id == theIds[1]
             data == IF id \in DOMAIN theCache THEN theCache[id] ELSE EmptyMap
         IN  Result("value", ProjectValue(Prop(data, prop)), NoChild)

\* [Symbol.iterator]: one single-record RecordSet per identifier, in order.
Iterate(theIds, isLoaded, theCache) ==
    [i \in 1..Len(theIds) |-> Single(theIds[i], isLoaded, theCache)]

\* Variant: the index counts from one.
IndexAccess_OneBased(theIds, isLoaded, theCache, index) ==
    IF index >= 1 /\ index <= Len(theIds)
    THEN Result("single", Undefined, Single(theIds[index], isLoaded, theCache))
    ELSE Result("noindex", Undefined, NoChild)

\* Indexed access rs[i].
IndexAccess(theIds, isLoaded, theCache, index) ==
    IF index >= 0 /\ index < Len(theIds)
    THEN Result("single", Undefined, Single(theIds[index + 1], isLoaded, theCache))
    ELSE Result("noindex", Undefined, NoChild)

\* Reflect.get(target, prop) for a property of the object: the id getter is
\* evaluated, every other member is handed out as it is.
MemberGet(theIds, prop) ==
    IF prop = "id" THEN IdGet(theIds) ELSE Result("member", Undefined, NoChild)

\* Variant: no special case for then / catch / finally / constructor / toJSON.
ProxyGet_NoSpecial(theIds, isLoaded, theCache, prop) ==
    IF prop \in MemberProps THEN MemberGet(theIds, prop)
    ELSE IF IsDigits(prop) THEN IndexAccess(theIds, isLoaded, theCache, ParseInt[prop])
    ELSE FieldAccess(theIds, isLoaded, theCache, prop)

\* The get trap of the Proxy, for a string property.
ProxyGet(theIds, isLoaded, theCache, prop) ==
    IF prop \in SpecialProps THEN Result("special", Undefined, NoChild)
    ELSE IF prop \in MemberProps THEN MemberGet(theIds, prop)
    ELSE IF IsDigits(prop) THEN IndexAccess(theIds, isLoaded, theCache, ParseInt[prop])
    ELSE FieldAccess(theIds, isLoaded, theCache, prop)

\* The property names a caller reads in the model.
FieldNames == {"name", "email", "parent_id", "category_id", "child_ids", "tags",
               "pair", "active", "nonexistent_field"}
PropNames == FieldNames \cup SpecialProps \cup MemberProps \cup DOMAIN ParseInt
\* ... and those the model lets the caller read.
GetProps == {"name", "parent_id", "pair", "nonexistent_field", "then", "id", "read", "0", "1"}

\* --------------------------------------------------- RecordSet: operations
\* The RecordSet as the caller holds it when an operation starts or resumes.
Snapshot == [ids |-> ids, loaded |-> loaded, cache |-> cache, pending |-> pending]

\* The record of a step: the operation, its outcome ("awaiting" while the
\* gateway call is in flight), whether the outcome came from the gateway or
\* was decided locally, the rows a read received, the RecordSets an
\* iteration yielded, the array that ids returned, and the RecordSet just
\* before the step.
Done(op, out, via) ==
    [op |-> op, out |-> out, via |-> via, prop |-> "", res |-> NoResult, data |-> <<>>, kids |-> <<>>, seen |-> NoArray, pre |-> Snapshot]

Request(op, fields) == [op |-> op, sent |-> ids, fields |-> fields]

\* Variant: only the first record of the answer is stored.
Store_FirstOnly(theCache, data) ==
    IF data = <<>> \/ "id" \notin DOMAIN Head(data) THEN theCache
    ELSE [i \in (DOMAIN theCache) \cup {Head(data)["id"].n} |->
             IF i = Head(data)["id"].n THEN Head(data) ELSE theCache[i]]

\* Variant: a fetched record is merged into the entry already cached.
RECURSIVE Store_Merges(_, _)
Store_Merges(theCache, data) ==
    IF data = <<>> THEN theCache
    ELSE LET record == Head(data)
             next == IF "id" \in DOMAIN record
                     THEN [i \in (DOMAIN theCache) \cup {record["id"].n} |->
                              IF i = record["id"].n
                              THEN (IF i \in DOMAIN theCache THEN Spread(theCache[i], record) ELSE record)
                              ELSE theCache[i]]
                     ELSE theCache
         IN  Store_Merges(next, Tail(data))

\* for (const record of data) if ('id' in record) cache.set(record.id, record)
RECURSIVE Store(_, _)
Store(theCache, data) ==
    IF data = <<>> THEN theCache
    ELSE LET record == Head(data)
             next == IF "id" \in DOMAIN record
                     THEN [i \in (DOMAIN theCache) \cup {record["id"].n} |->
                              IF i = record["id"].n THEN record ELSE theCache[i]]
                     ELSE theCache
         IN  Store(next, Tail(data))

\* No RecordSet of the session is followed, no call of one is awaited.
NoRecordSets ==
    /\ rsets = <<>>
    /\ rcalls = EmptyBag

\* new RecordSet(model, theIds)
RecordSetInit(theIds) ==
    /\ ids = theIds
    /\ loaded = FALSE
    /\ cache = EmptyMap
    /\ pending = EmptyBag
    /\ last = [op |-> "new", out |-> "", via |-> "local", prop |-> "", res |-> NoResult, data |-> <<>>, kids |-> <<>>, seen |-> NoArray,
               pre |-> [ids |-> theIds, loaded |-> FALSE, cache |-> EmptyMap, pending |-> EmptyBag]]

Init ==
    /\ \E theIds \in IdSeqs : RecordSetInit(theIds)
    /\ ClientInit
    /\ NoRecordSets

\* read(fields), up to the await.
ReadCall(fields) ==
    /\ UNCHANGED <<clVars, prVars>>
    /\ IF Len(ids) = 0
       THEN /\ loaded' = TRUE
            /\ last' = Done("read", "this", "local")
            /\ UNCHANGED <<ids, cache, pending>>
       ELSE /\ BagCardinality(pending) < MaxPending
            /\ pending' = pending (+) SetToBag({Request("read", fields)})
            /\ last' = Done("read", "awaiting", "local")
            /\ UNCHANGED <<ids, loaded, cache>>

\* Variant: the rows are cached but the flag is left as it is.
ReadResolve_NoFlag(r, data) ==
    /\ UNCHANGED <<clVars, prVars>>
    /\ r.op = "read"
    /\ cache' = Store(cache, data)
    /\ pending' = pending (-) SetToBag({r})
    /\ last' = [Done("read", "this", "gateway") EXCEPT !.data = data]
    /\ UNCHANGED <<ids, loaded>>

\* Variant: an answer that arrives while a write is awaited is dropped.
ReadResolve_YieldsToWrite(r, data) ==
    /\ UNCHANGED <<clVars, prVars>>
    /\ r.op = "read"
    /\ LET racing == \E w \in BagToSet(pending) : w.op = "write"
       IN  /\ cache' = IF racing THEN cache ELSE Store(cache, data)
           /\ loaded' = IF racing THEN loaded ELSE TRUE
    /\ pending' = pending (-) SetToBag({r})
    /\ last' = [Done("read", "this", "gateway") EXCEPT !.data = data]
    /\ UNCHANGED ids

\* read: the continuation after model.read resolved with data.
ReadResolve(r, data) ==
    /\ UNCHANGED <<clVars, prVars>>
    /\ r.op = "read"
    /\ cache' = Store(cache, data)
    /\ loaded' = TRUE
    /\ pending' = pending (-) SetToBag({r})
    /\ last' = [Done("read", "this", "gateway") EXCEPT !.data = data]
    /\ UNCHANGED ids

\* read: model.read rejected, the error propagates.
ReadReject(r) ==
    /\ UNCHANGED <<clVars, prVars>>
    /\ r.op = "read"
    /\ pending' = pending (-) SetToBag({r})
    /\ last' = Done("read", "rejected", "gateway")
    /\ UNCHANGED <<ids, loaded, cache>>

\* Variant: no early return, the gateway is called for an empty RecordSet too.
WriteCall_NoFastPath ==
    /\ UNCHANGED <<clVars, prVars>>
    /\ BagCardinality(pending) < MaxPending
    /\ pending' = pending (+) SetToBag({Request("write", <<>>)})
    /\ last' = Done("write", "awaiting", "local")
    /\ UNCHANGED <<ids, loaded, cache>>

\* write(values), up to the await.
WriteCall ==
    /\ UNCHANGED <<clVars, prVars>>
    /\ IF Len(ids) = 0
       THEN /\ last' = Done("write", "true", "local")
            /\ UNCHANGED <<ids, loaded, cache, pending>>
       ELSE /\ BagCardinality(pending) < MaxPending
            /\ pending' = pending (+) SetToBag({Request("write", <<>>)})
            /\ last' = Done("write", "awaiting", "local")
            /\ UNCHANGED <<ids, loaded, cache>>

\* Variant: a successful write resets the flag but keeps the cache.
WriteResolve_KeepsCache(r, result) ==
    /\ UNCHANGED <<clVars, prVars>>
    /\ r.op = "write"
    /\ IF result
       THEN /\ loaded' = FALSE
            /\ UNCHANGED cache
       ELSE UNCHANGED <<loaded, cache>>
    /\ pending' = pending (-) SetToBag({r})
    /\ last' = Done("write", IF result THEN "true" ELSE "falsy", "gateway")
    /\ UNCHANGED ids

\* Variant: the cache is invalidated whatever the result.
WriteResolve_IgnoresResult(r, result) ==
    /\ UNCHANGED <<clVars, prVars>>
    /\ r.op = "write"
    /\ loaded' = FALSE
    /\ cache' = EmptyMap
    /\ pending' = pending (-) SetToBag({r})
    /\ last' = Done("write", IF result THEN "true" ELSE "falsy", "gateway")
    /\ UNCHANGED ids

\* write: the continuation after model.write resolved with result.
WriteResolve(r, result) ==
    /\ UNCHANGED <<clVars, prVars>>
    /\ r.op = "write"
    /\ IF result
       THEN /\ loaded' = FALSE
            /\ cache' = EmptyMap
       ELSE UNCHANGED <<loaded, cache>>
    /\ pending' = pending (-) SetToBag({r})
    /\ last' = Done("write", IF result THEN "true" ELSE "falsy", "gateway")
    /\ UNCHANGED ids

WriteReject(r) ==
    /\ UNCHANGED <<clVars, prVars>>
    /\ r.op = "write"
    /\ pending' = pending (-) SetToBag({r})
    /\ last' = Done("write", "rejected", "gateway")
    /\ UNCHANGED <<ids, loaded, cache>>

\* unlink(), up to the await.
UnlinkCall ==
    /\ UNCHANGED <<clVars, prVars>>
    /\ IF Len(ids) = 0
       THEN /\ last' = Done("unlink", "true", "local")
            /\ UNCHANGED <<ids, loaded, cache, pending>>
       ELSE /\ BagCardinality(pending) < MaxPending
            /\ pending' = pending (+) SetToBag({Request("unlink", <<>>)})
            /\ last' = Done("unlink", "awaiting", "local")
            /\ UNCHANGED <<ids, loaded, cache>>

\* Variant: a successful unlink clears the cache but keeps the identifiers.
UnlinkResolve_KeepsIds(r, result) ==
    /\ UNCHANGED <<clVars, prVars>>
    /\ r.op = "unlink"
    /\ IF result
       THEN /\ loaded' = FALSE
            /\ cache' = EmptyMap
            /\ UNCHANGED ids
       ELSE UNCHANGED <<ids, loaded, cache>>
    /\ pending' = pending (-) SetToBag({r})
    /\ last' = Done("unlink", IF result THEN "true" ELSE "falsy", "gateway")

\* Variant: the RecordSet is emptied whatever the result.
UnlinkResolve_IgnoresResult(r, result) ==
    /\ UNCHANGED <<clVars, prVars>>
    /\ r.op = "unlink"
    /\ loaded' = FALSE
    /\ cache' = EmptyMap
    /\ ids' = <<>>
    /\ pending' = pending (-) SetToBag({r})
    /\ last' = Done("unlink", IF result THEN "true" ELSE "falsy", "gateway")

\* unlink: the continuation after model.unlink resolved with result.
UnlinkResolve(r, result) ==
    /\ UNCHANGED <<clVars, prVars>>
    /\ r.op = "unlink"
    /\ IF result
       THEN /\ loaded' = FALSE
            /\ cache' = EmptyMap
            /\ ids' = <<>>
       ELSE UNCHANGED <<ids, loaded, cache>>
    /\ pending' = pending (-) SetToBag({r})
    /\ last' = Done("unlink", IF result THEN "true" ELSE "falsy", "gateway")

UnlinkReject(r) ==
    /\ UNCHANGED <<clVars, prVars>>
    /\ r.op = "unlink"
    /\ pending' = pending (-) SetToBag({r})
    /\ last' = Done("unlink", "rejected", "gateway")
    /\ UNCHANGED <<ids, loaded, cache>>

\* rs[prop]: a synchronous property read through the Proxy.
FieldGet(prop) ==
    /\ UNCHANGED <<clVars, prVars>>
    /\ last' = [Done("get", "", "local") EXCEPT !.prop = prop, !.res = ProxyGet(ids, loaded, cache, prop)]
    /\ UNCHANGED <<ids, loaded, cache, pending>>

\* [...rs]: the iteration, run to its end.
IterateAll ==
    /\ UNCHANGED <<clVars, prVars>>
    /\ last' = [Done("iterate", "done", "local") EXCEPT !.kids = Iterate(ids, loaded, cache)]
    /\ UNCHANGED <<ids, loaded, cache, pending>>

\* rs.withContext(ctx), as the RecordSet it is called on lives it: the new
\* RecordSet (res.child) is constructed and filled, this one is only read.
WithContext ==
    /\ UNCHANGED <<clVars, prVars>>
    /\ last' = [Done("withContext", "done", "local") EXCEPT
                   !.res = Result("derived", Undefined,
                                  [ids |-> ids, loaded |-> loaded, cache |-> IF loaded THEN cache ELSE EmptyMap])]
    /\ UNCHANGED <<ids, loaded, cache, pending>>

\* rs.ids
IdsRead ==
    /\ UNCHANGED <<clVars, prVars>>
    /\ last' = [Done("ids", "done", "local") EXCEPT !.seen = IdsGet(ids)]
    /\ UNCHANGED <<ids, loaded, cache, pending>>

\* What a caller can turn an array of identifiers into, in place: a push,
\* length = 0.
Mutations(arr) == {Append(arr, 1), <<>>}

\* The caller changes in place the array that rs.ids returned last; arr is
\* the array afterwards.  The RecordSet sees the change when that array is
\* its own _ids.
MutateIds(arr) ==
    /\ UNCHANGED <<clVars, prVars>>
    /\ last.op = "ids"
    /\ arr # last.seen.arr
    /\ last' = [Done("mutate", "done", "local") EXCEPT !.seen = [last.seen EXCEPT !.arr = arr]]
    /\ ids' = IF last.seen.shares THEN arr ELSE ids
    /\ UNCHANGED <<loaded, cache, pending>>

\* The names the set trap lets through: cache, loaded, and those that start
\* with '_' (of the names of the model: _ids).
UnderscoreProps == {"_ids"}

\* Variant: the set trap lets every name through.
AllowedSet_AnyName(prop) == TRUE

AllowedSet(prop) == prop \in {"cache", "loaded"} \/ prop \in UnderscoreProps

\* The names a caller assigns to in the model, and the values assigned.
SetProps == {"name", "id", "then", "0", "model", "loaded", "cache", "_ids"}
SetValues(prop) ==
    CASE prop = "loaded" -> BOOLEAN
      [] prop = "_ids" -> IdSeqs
      [] OTHER -> {EmptyMap}

\* rs[prop] = value: the set trap of the Proxy.  Reflect.set on an allowed
\* name replaces the field of the RecordSet object.
FieldSet(prop, value) ==
    /\ UNCHANGED <<clVars, prVars>>
    /\ UNCHANGED pending
    /\ IF AllowedSet(prop)
       THEN /\ loaded' = (IF prop = "loaded" THEN value ELSE loaded)
            /\ cache' = (IF prop = "cache" THEN value ELSE cache)
            /\ ids' = (IF prop = "_ids" THEN value ELSE ids)
            /\ last' = [Done("set", "true", "local") EXCEPT !.prop = prop]
       ELSE /\ last' = [Done("set", "err_assign", "local") EXCEPT !.prop = prop]
            /\ UNCHANGED <<ids, loaded, cache>>

Next ==
    \/ \E fields \in FieldLists : ReadCall(fields)
    \/ \E r \in BagToSet(pending) : \E data \in ReadReplies(r.sent, r.fields) : ReadResolve(r, data)
    \/ \E r \in BagToSet(pending) : ReadReject(r)
    \/ WriteCall
    \/ \E r \in BagToSet(pending) : \E result \in BOOLEAN : WriteResolve(r, result)
    \/ \E r \in BagToSet(pending) : WriteReject(r)
    \/ UnlinkCall
    \/ \E r \in BagToSet(pending) : \E result \in BOOLEAN : UnlinkResolve(r, result)
    \/ \E r \in BagToSet(pending) : UnlinkReject(r)
    \/ \E prop \in GetProps : FieldGet(prop)
    \/ IterateAll
    \/ WithContext
    \/ IdsRead
    \/ \E arr \in Mutations(last.seen.arr) : MutateIds(arr)

Spec == Init /\ [][Next]_vars

\* ------------------------------------------------- RecordSet: properties
\* The RecordSet is exactly as it was before the last step.
Untouched == ids = last.pre.ids /\ loaded = last.pre.loaded /\ cache = last.pre.cache

\* The result a caller gets for prop in the current state.
Get(prop) == ProxyGet(ids, loaded, cache, prop)

\* The row cached for the only record, {} when there is none.
SoleRow == IF ids[1] \in DOMAIN cache THEN cache[ids[1]] ELSE EmptyMap

\* C3: a write that the gateway answers with a truthy result, on a RecordSet
\* with at least one identifier, leaves the RecordSet UNLOADED whatever it was
\* before: isLoaded false, cache empty, identifiers unchanged.
C3_WriteSuccessInvalidates ==
    (last.op = "write" /\ last.out = "true" /\ Len(last.pre.ids) > 0)
        => (loaded = FALSE /\ cache = EmptyMap /\ ids = last.pre.ids)

\* A successful write has just invalidated a RecordSet that was loaded and
\* held cached rows.
C3_Witness ==
    /\ last.op = "write" /\ last.out = "true" /\ last.via = "gateway"
    /\ Len(last.pre.ids) > 0 /\ last.pre.loaded /\ last.pre.cache # EmptyMap
    /\ ~loaded /\ cache = EmptyMap

\* C4: a write that fails (the gateway rejects or answers a falsy result)
\* changes nothing: isLoaded, cache and identifiers are as before.
C4_WriteFailureNoChange ==
    (last.op = "write" /\ last.out \in {"falsy", "rejected"}) => Untouched

\* A falsy write result has just been applied to a loaded RecordSet.
C4_Witness ==
    /\ last.op = "write" /\ last.out = "falsy"
    /\ loaded /\ cache # EmptyMap /\ Len(ids) > 0

\* C5 as stated: after any unlink that succeeds, from any prior state, ids is
\* empty, isLoaded is false, the cache is empty and iteration yields nothing.
C5_UnlinkSuccessFromAnyState ==
    (last.op = "unlink" /\ last.out = "true")
        => (ids = <<>> /\ Len(ids) = 0 /\ loaded = FALSE /\ cache = EmptyMap
            /\ Iterate(ids, loaded, cache) = <<>>)

\* C5 amended: after an unlink that succeeds through the gateway, ids is
\* empty, isLoaded is false, the cache is empty and iteration yields nothing;
\* an unlink on a RecordSet that is already empty returns true and leaves the
\* RecordSet, its isLoaded included, as it was.
C5_UnlinkSuccessFinal ==
    /\ (last.op = "unlink" /\ last.out = "true" /\ last.via = "gateway")
         => (ids = <<>> /\ Len(ids) = 0 /\ loaded = FALSE /\ cache = EmptyMap
             /\ Iterate(ids, loaded, cache) = <<>>)
    /\ (last.op = "unlink" /\ last.out = "true" /\ last.via = "local")
         => (ids = <<>> /\ Untouched)

\* A successful unlink has just emptied a loaded multi-record RecordSet.
C5_Witness ==
    /\ last.op = "unlink" /\ last.out = "true" /\ last.via = "gateway"
    /\ Len(last.pre.ids) > 1 /\ last.pre.loaded /\ last.pre.cache # EmptyMap
    /\ ids = <<>>

\* C6: an unlink that fails (the gateway rejects or answers a falsy result)
\* changes nothing: identifiers, isLoaded and cache are as before.
C6_UnlinkFailureNoChange ==
    (last.op = "unlink" /\ last.out \in {"falsy", "rejected"}) => Untouched

\* A falsy unlink result has just been applied to a loaded RecordSet.
C6_Witness ==
    /\ last.op = "unlink" /\ last.out = "falsy"
    /\ loaded /\ cache # EmptyMap /\ Len(ids) > 0

\* C7 as stated: on an unloaded RecordSet, reading any name that is not a
\* declared RecordSet operation, then / catch / finally / constructor / toJSON
\* included, raises 'field not loaded' and issues no gateway call.
C7_UnloadedGetAlwaysRaises ==
    (last.op = "get" /\ ~loaded /\ last.prop \in FieldNames \cup SpecialProps)
        => (last.res.kind = "err_not_loaded" /\ pending = last.pre.pending)

\* C7 amended: on an unloaded RecordSet, reading a name that is neither a
\* property of the RecordSet object, nor a digit string, nor one of then /
\* catch / finally / constructor / toJSON raises 'field not loaded' and issues
\* no gateway call; reading one of these five names returns undefined without
\* raising, loaded or not.
C7_UnloadedGetRaises ==
    /\ ~loaded => \A prop \in FieldNames : Get(prop).kind = "err_not_loaded"
    /\ \A prop \in SpecialProps : Get(prop) = Result("special", Undefined, NoChild)
    /\ (last.op = "get" /\ ~loaded /\ last.prop \in FieldNames)
         => (last.res.kind = "err_not_loaded" /\ pending = last.pre.pending /\ Untouched)
    /\ (last.op = "get" /\ last.prop \in SpecialProps) => last.res.kind = "special"

\* The field name has just been read on an unloaded single-record RecordSet.
C7_Witness ==
    /\ last.op = "get" /\ last.prop = "name" /\ last.res.kind = "err_not_loaded"
    /\ ~loaded /\ Len(ids) = 1

\* C8: on a loaded RecordSet with exactly one identifier, reading a field that
\* the cached row does not hold (or when no row is cached for the identifier)
\* returns undefined and does not raise.
C8_MissingFieldIsUndefined ==
    (loaded /\ Len(ids) = 1)
        => \A prop \in FieldNames :
              (ids[1] \notin DOMAIN cache \/ prop \notin DOMAIN cache[ids[1]])
                  => Get(prop) = Result("value", Undefined, NoChild)

\* A field has just been read on a loaded single record whose row the gateway
\* did not return.
C8_Witness ==
    /\ last.op = "get" /\ last.prop = "nonexistent_field"
    /\ loaded /\ Len(ids) = 1 /\ ids[1] \notin DOMAIN cache
    /\ last.res = Result("value", Undefined, NoChild)

\* C9: field access fails with 'field not loaded' whenever isLoaded is false;
\* when isLoaded is true it fails with the multi-record error whenever the
\* number of identifiers is not one (zero included); a value is returned only
\* when isLoaded is true and there is exactly one identifier.
C9_FieldAccessGuards ==
    \A prop \in FieldNames :
        /\ ~loaded => Get(prop).kind = "err_not_loaded"
        /\ (loaded /\ Len(ids) # 1) => Get(prop).kind = "err_multi"
        /\ Get(prop).kind = "value" <=> (loaded /\ Len(ids) = 1)

\* A field has just been read on a RecordSet that is loaded and empty.
C9_Witness ==
    /\ last.op = "get" /\ last.prop = "name" /\ last.res.kind = "err_multi"
    /\ loaded /\ Len(ids) = 0

\* A raw value shaped like a Many2one: two elements, the first a number.
IsMany2one(raw) == raw.t = "array" /\ Len(raw.a) = 2 /\ raw.a[1].t = "number"

\* C10: on a loaded RecordSet with exactly one identifier, field access
\* returns the first element of a cached raw value that is a two-element
\* sequence starting with a number, and the cached raw value itself otherwise.
C10_Many2oneProjection ==
    (loaded /\ Len(ids) = 1)
        => \A prop \in FieldNames :
              LET raw == Prop(SoleRow, prop)
              IN  /\ Get(prop).kind = "value"
                  /\ IsMany2one(raw) => (Get(prop).val.t = "number" /\ Get(prop).val.n = raw.a[1].n)
                  /\ ~IsMany2one(raw) => Get(prop).val = raw

\* parent_id, cached as [42, "Parent"], has just been read as 42.
C10_Witness ==
    /\ last.op = "get" /\ last.prop = "parent_id"
    /\ loaded /\ Len(ids) = 1
    /\ Prop(SoleRow, "parent_id") = Arr(<<NumAtom(42), StrAtom("Parent")>>)
    /\ last.res = Result("value", Num(42), NoChild)

\* C11: RecordSet.id is the only identifier when there is exactly one, the
\* sentinel false when there is none, and raises a usage error when there are
\* several; this holds whether the RecordSet is loaded or not, and reading id
\* issues no gateway call and leaves the RecordSet as it was.
C11_IdGetter ==
    /\ Len(ids) = 1 => Get("id") = Result("value", Num(ids[1]), NoChild)
    /\ Len(ids) = 0 => Get("id") = Result("value", False, NoChild)
    /\ Len(ids) > 1 => Get("id").kind = "err_multi_id"
    /\ (last.op = "get" /\ last.prop = "id")
         => /\ pending = last.pre.pending /\ Untouched
            /\ last.res = Get("id")
            /\ last.res.kind = (IF Len(ids) > 1 THEN "err_multi_id" ELSE "value")

\* id has just been read on an unloaded RecordSet of several records, and raised.
C11_Witness ==
    /\ last.op = "get" /\ last.prop = "id" /\ last.res.kind = "err_multi_id"
    /\ Len(ids) > 1 /\ ~loaded

\* C15: a RecordSet without identifiers keeps none, whatever completes or is
\* called afterwards; read, write and unlink called on it return at once
\* (read: the RecordSet, write and unlink: true) without a gateway call, and
\* read leaves it loaded and empty.
C15_EmptyAbsorbing ==
    /\ last.pre.ids = <<>> => ids = <<>>
    /\ (last.pre.ids = <<>> /\ last.op \in {"read", "write", "unlink"} /\ last.via = "local")
         => /\ last.out = (IF last.op = "read" THEN "this" ELSE "true")
            /\ pending = last.pre.pending
            /\ cache = last.pre.cache
            /\ Iterate(ids, loaded, cache) = <<>>
            /\ IF last.op = "read" THEN loaded ELSE loaded = last.pre.loaded

\* write has just returned true on a RecordSet that an unlink emptied earlier
\* (its cache holds a row that a read in flight at that time stored since).
C15_Witness ==
    /\ last.op = "write" /\ last.out = "true" /\ last.via = "local"
    /\ last.pre.ids = <<>> /\ ids = <<>> /\ cache # EmptyMap

\* C18 as stated: once a read that went to the gateway has resolved, isLoaded
\* is true and the cache holds an entry for every current identifier.
C18_ReadCachesEveryId ==
    (last.op = "read" /\ last.via = "gateway" /\ last.out = "this")
        => (loaded /\ \A i \in Range(ids) : i \in DOMAIN cache)

\* C18 amended: once a read that went to the gateway has resolved, it has
\* returned the RecordSet it was called on, isLoaded is true, the identifiers
\* are unchanged, and the cache holds, for every record of the answer, that
\* record under its id (the last one when an id occurs twice); an identifier
\* for which the answer holds no record gets no entry from this read.
C18_ReadCachesAnswer ==
    (last.op = "read" /\ last.via = "gateway" /\ last.out = "this")
        => /\ loaded
           /\ ids = last.pre.ids
           /\ \A k \in DOMAIN last.data :
                 LET id == last.data[k]["id"].n
                 IN  /\ id \in DOMAIN cache
                     /\ (\A j \in DOMAIN last.data : (j > k) => last.data[j]["id"].n # id)
                           => cache[id] = last.data[k]
           /\ \A i \in DOMAIN cache :
                 \/ \E k \in DOMAIN last.data : last.data[k]["id"].n = i
                 \/ (i \in DOMAIN last.pre.cache /\ cache[i] = last.pre.cache[i])

\* A read of two records has just resolved with a row for each, and both
\* are cached.
C18_Witness ==
    /\ last.op = "read" /\ last.via = "gateway" /\ last.out = "this"
    /\ Len(ids) = 2 /\ Len(last.data) = 2 /\ loaded
    /\ \A i \in Range(ids) : i \in DOMAIN cache

\* C19 as stated: assigning to a property of a RecordSet always fails, for
\* every property name, and leaves identifiers, isLoaded and cache unchanged.
C19_AssignAlwaysFails ==
    last.op = "set" => (last.out = "err_assign" /\ Untouched)

\* C19 amended: assigning to a property of a RecordSet fails with the error
\* that directs the caller to write(), and leaves identifiers, isLoaded and
\* cache unchanged, for every property name other than 'cache', 'loaded' and
\* the names that start with '_'; for these the assignment succeeds and
\* replaces the property of the RecordSet object.
C19_AssignFails ==
    /\ (last.op = "set" /\ last.prop \notin {"cache", "loaded", "_ids"})
         => (last.out = "err_assign" /\ Untouched /\ pending = last.pre.pending)
    /\ (last.op = "set" /\ last.prop \in {"cache", "loaded", "_ids"})
         => (last.out = "true" /\ pending = last.pre.pending)

\* An assignment to the field name on a loaded single record has just failed.
C19_Witness ==
    /\ last.op = "set" /\ last.prop = "name" /\ last.out = "err_assign"
    /\ loaded /\ Len(ids) = 1 /\ ids[1] \in DOMAIN cache

\* C23: the identifiers change only when an unlink that the gateway answered
\* with a truthy result empties them: read, write, an unlink that failed,
\* withContext, the iteration, an index, a field access and a change made
\* to the array that ids returned leave the identifiers and their order.
C23_IdsChangeOnlyByUnlink ==
    /\ last.op \in {"new", "read", "write", "unlink", "withContext", "iterate", "get", "ids", "mutate"}
    /\ ids # last.pre.ids =>
          /\ last.op = "unlink"
          /\ last.out = "true"
          /\ last.via = "gateway"
          /\ ids = <<>>

\* The caller changed the array that ids returned; the RecordSet keeps its
\* identifiers.
C23_Witness ==
    /\ last.op = "mutate"
    /\ Len(ids) = 2
    /\ last.seen.arr # ids
    /\ ids = last.pre.ids

C25_IndexAccess ==
    /\ \A p \in DOMAIN ParseInt :
          LET i == ParseInt[p]
              got == ProxyGet(ids, loaded, cache, p)
          IN  IF i < Len(ids)
              THEN /\ got.kind = "single"
                   /\ got.child = Iterate(ids, loaded, cache)[i + 1]
                   /\ got.child.ids = <<ids[i + 1]>>
              ELSE got = Result("noindex", Undefined, NoChild)
    /\ (last.op = "get" /\ IsDigits(last.prop)) =>
          /\ Untouched
          /\ last.res = ProxyGet(ids, loaded, cache, last.prop)

\* rs[1] of a loaded RecordSet of two records returned the second one, loaded.
C25_Witness ==
    /\ last.op = "get"
    /\ last.prop = "1"
    /\ Len(ids) = 2
    /\ last.res.kind = "single"
    /\ last.res.child.ids = <<ids[2]>>
    /\ last.res.child.loaded

\* ------------------------------------------------ client: what callers pass
\* An optional argument: given is FALSE when the caller leaves it out.
Given(kw) == [given |-> TRUE, kw |-> kw]
NotGiven == [given |-> FALSE, kw |-> EmptyMap]

\* The context patches of withContext.
Patches == <<[k \in {"lang"} |-> "fr_FR"]>>

\* What /web/session/authenticate answers: uid (0 when the credentials are
\* wrong) and user_context, possibly absent.
LoginResults ==
    <<[uid |-> Num(0), hasCtx |-> FALSE, ctx |-> EmptyMap],
      [uid |-> Num(2), hasCtx |-> FALSE, ctx |-> EmptyMap],
      [uid |-> Num(2), hasCtx |-> TRUE, ctx |-> [k \in {"lang", "tz"} |-> IF k = "lang" THEN "en_US" ELSE "UTC"]]>>

\* The Models the callers of SpecClient work with.
ClientModelNames == {"product.product"}

\* The entity-type names asked of the registries in SpecEnv.
EnvModelNames == {"product.product", "res.partner"}

\* Search domains and options, and the identifier lists passed to a Model.
Domains == <<<<>>, <<<<"customer", "=", "true">>>>>>
CallIds == <<<<>>, <<1>>>>
SearchOptions ==
    <<EmptyMap,
      [k \in {"limit", "order"} |-> IF k = "limit" THEN 10 ELSE "create_date DESC"]>>

\* The kwargs a caller passes to Model.call and to OdooClient.executeKw.
CallKwargs ==
    <<NotGiven,
      Given([k \in {"limit"} |-> 5]),
      Given([k \in {"context"} |-> [c \in {"lang"} |-> "es_ES"]]),
      Given([k \in {"context"} |-> [c \in {"active_test"} |-> "false"]])>>

\* -------------------------------------------------------- client: session
\* A call that handed nothing to the connector, and one that handed req.
\* calls counts the requests the operation handed to the connector; pre is
\* the session and the Environments as the step found them.
Outcome(op, out) ==
    [op |-> op, out |-> out, sent |-> FALSE, calls |-> 0, req |-> <<>>,
     inp |-> NoInput, reply |-> NoReply, ret |-> NoRet,
     pre |-> [curEnv |-> curEnv, envs |-> envs]]
Sent(op, req) ==
    [op |-> op, out |-> "sent", sent |-> TRUE, calls |-> 1, req |-> req,
     inp |-> NoInput, reply |-> NoReply, ret |-> NoRet,
     pre |-> [curEnv |-> curEnv, envs |-> envs]]

\* A call_kw request as the connector receives it.  env, kwIn and sess are
\* not sent: they record the Environment the call was issued through (0:
\* none), the kwargs the caller passed and the session context at that moment.
Req(model, method, args, kwargs, env, kwIn) ==
    [endpoint |-> "/web/dataset/call_kw", model |-> model, method |-> method, args |-> args,
     kwargs |-> kwargs, env |-> env, kwIn |-> kwIn, sess |-> sessCtx]

\* A login or logout request in flight.  stale and early are not sent:
\* stale records that connect() replaced the connector the request was
\* issued through, early that a logout() completed while the request was in
\* flight.
SessionReq(endpoint, db) == [endpoint |-> endpoint, db |-> db, stale |-> FALSE, early |-> FALSE]

WireRemove(k) == [i \in 1..(Len(wire) - 1) |-> IF i < k THEN wire[i] ELSE wire[i + 1]]

\* The requests left in flight when a logout() completes: the logins among
\* them were invoked before that completion.
AfterLogout(w) ==
    [i \in DOMAIN w |-> IF w[i].endpoint = "/web/session/authenticate" THEN [w[i] EXCEPT !.early = TRUE] ELSE w[i]]

\* The authenticate requests still in flight.
LoginsInFlight == Cardinality({k \in DOMAIN wire : wire[k].endpoint = "/web/session/authenticate"})

\* JsonRpcConnector.call after the response: session_id of the result, then
\* the session_id cookie of Set-Cookie, are stored.
Receive(conn, info) ==
    LET body == IF info.body # "" THEN [conn EXCEPT !.sessionId = info.body] ELSE conn
    IN  IF info.cookie # ""
        THEN [body EXCEPT !.sessionCookie = info.cookie, !.sessionId = info.cookie]
        ELSE body

\* JsonRpcConnector.clearSession()
ConnectorClearSession(conn) == [conn EXCEPT !.sessionId = ""]

\* connect(config): a new connector replaces the current one.
Connect ==
    /\ connected' = TRUE
    /\ connector' = NoSession
    /\ wire' = [k \in DOMAIN wire |-> [wire[k] EXCEPT !.stale = TRUE]]
    /\ clast' = Outcome("connect", "done")
    /\ UNCHANGED <<curEnv, sessCtx, envs, models>>
    /\ UNCHANGED <<rsVars, prVars>>

\* login(database, username, password), up to the await.
LoginCall(db) ==
    /\ UNCHANGED <<connected, curEnv, sessCtx, envs, models>>
    /\ UNCHANGED <<rsVars, prVars, connector>>
    /\ IF ~connected
       THEN /\ clast' = [Outcome("login", "err_not_connected") EXCEPT !.inp.db = db]
            /\ UNCHANGED wire
       ELSE /\ Len(wire) < MaxWire
            /\ Len(envs) + LoginsInFlight < MaxEnvs
            /\ wire' = Append(wire, SessionReq("/web/session/authenticate", db))
            /\ clast' = [Outcome("login", "awaiting") EXCEPT !.inp.db = db]

\* Variant: the user_context of the answer is not kept.
UserContext_Dropped(result) == EmptyMap

\* result.user_context || {}
UserContext(result) == IF result.hasCtx THEN result.ctx ELSE EmptyMap

\* Variant: the uid is not looked at, every answer opens a session.
LoginResolve_AnyUid(k, result, info) ==
    /\ wire[k].endpoint = "/web/session/authenticate"
    /\ wire' = WireRemove(k)
    /\ connector' = IF wire[k].stale THEN connector ELSE Receive(connector, info)
    /\ LET ctx == UserContext(result)
       IN  /\ sessCtx' = ctx
           /\ envs' = Append(envs, [context |-> ctx, registry |-> EmptyMap,
                                    database |-> wire[k].db, uid |-> result.uid,
                                    parent |-> 0, patch |-> EmptyMap, born |-> ctx])
           /\ curEnv' = Len(envs) + 1
           /\ clast' = [Outcome("login", "done") EXCEPT !.inp.db = wire[k].db, !.reply = LoginReply(result)]
    /\ UNCHANGED <<connected, models>>
    /\ UNCHANGED <<rsVars, prVars>>

\* login: the continuation after the connector resolved with result, whose
\* session information (info) the connector has stored.
LoginResolve(k, result, info) ==
    /\ wire[k].endpoint = "/web/session/authenticate"
    /\ wire' = WireRemove(k)
    /\ connector' = IF wire[k].stale THEN connector ELSE Receive(connector, info)
    /\ IF Falsy(result.uid)
       THEN /\ clast' = [Outcome("login", "err_auth") EXCEPT !.inp.db = wire[k].db, !.reply = LoginReply(result)]
            /\ UNCHANGED <<curEnv, sessCtx, envs>>
       ELSE LET ctx == UserContext(result)
            IN  /\ sessCtx' = ctx
                /\ envs' = Append(envs, [context |-> ctx, registry |-> EmptyMap,
                                         database |-> wire[k].db, uid |-> result.uid,
                                         parent |-> 0, patch |-> EmptyMap, born |-> ctx])
                /\ curEnv' = Len(envs) + 1
                /\ clast' = [Outcome("login", "done") EXCEPT !.inp.db = wire[k].db, !.reply = LoginReply(result)]
    /\ UNCHANGED <<connected, models>>
    /\ UNCHANGED <<rsVars, prVars>>

\* login: the connector rejected (OdooRpcError), the error is rethrown.
LoginReject(k, code) ==
    /\ wire[k].endpoint = "/web/session/authenticate"
    /\ wire' = WireRemove(k)
    /\ clast' = [Outcome("login", "err_rpc") EXCEPT !.inp.db = wire[k].db, !.reply = ErrorReply(code),
                                                    !.ret = Raised(code)]
    /\ UNCHANGED <<connected, curEnv, sessCtx, envs, models>>
    /\ UNCHANGED <<rsVars, prVars, connector>>

\* logout(), up to the await.
LogoutCall ==
    /\ UNCHANGED <<connected, curEnv, sessCtx, envs, models>>
    /\ UNCHANGED <<rsVars, prVars, connector>>
    /\ IF ~connected
       THEN /\ clast' = Outcome("logout", "err_not_connected")
            /\ UNCHANGED wire
       ELSE /\ Len(wire) < MaxWire
            /\ wire' = Append(wire, SessionReq("/web/session/destroy", ""))
            /\ clast' = Outcome("logout", "awaiting")

\* Variant: the session is cleared only when the gateway destroyed it.
LogoutDone_OnlyOnSuccess(k, ok, info) ==
    /\ wire[k].endpoint = "/web/session/destroy"
    /\ wire' = AfterLogout(WireRemove(k))
    /\ curEnv' = IF ok THEN 0 ELSE curEnv
    /\ sessCtx' = IF ok THEN EmptyMap ELSE sessCtx
    /\ connector' = IF ok THEN ConnectorClearSession(connector) ELSE connector
    /\ clast' = [Outcome("logout", "done") EXCEPT !.reply = IF ok THEN NoReply ELSE ErrorReply(200)]
    /\ UNCHANGED <<connected, envs, models>>
    /\ UNCHANGED <<rsVars, prVars>>

\* logout: the call resolved (ok, with session information info) or was
\* rejected, the error is ignored; then the finally block, clearSession().
LogoutDone(k, ok, info) ==
    /\ wire[k].endpoint = "/web/session/destroy"
    /\ wire' = AfterLogout(WireRemove(k))
    /\ curEnv' = 0
    /\ sessCtx' = EmptyMap
    /\ connector' = ConnectorClearSession(IF ok /\ ~wire[k].stale THEN Receive(connector, info) ELSE connector)
    /\ clast' = [Outcome("logout", "done") EXCEPT !.reply = IF ok THEN NoReply ELSE ErrorReply(200)]
    /\ UNCHANGED <<connected, envs, models>>
    /\ UNCHANGED <<rsVars, prVars>>

\* --------------------------------------------------- client: Environment
\* Variant: no lookup, a Model is created and registered on every call.
EnvModel_NoMemo(e, name) ==
    /\ Len(models) < MaxEnvs * Cardinality(ClientModelNames) + 1
    /\ models' = Append(models, [env |-> e, name |-> name])
    /\ envs' = [envs EXCEPT ![e].registry =
                   [n \in (DOMAIN @) \cup {name} |-> IF n = name THEN Len(models) + 1 ELSE @[n]]]
    /\ clast' = [Outcome("model", "done") EXCEPT !.inp = [NoInput EXCEPT !.e = e, !.name = name],
                                                 !.ret = RetModel(Len(models) + 1)]
    /\ UNCHANGED <<connected, curEnv, sessCtx, wire>>
    /\ UNCHANGED <<rsVars, prVars, connector>>

\* Variant: the call is suspended between the lookup and the insertion.  A
\* call that finds no Model waits (out "checking", calls counts the waiting
\* calls, at most two); a further call completes one of them, which creates
\* and registers its Model whatever the registry holds by then.
EnvModel_Suspends(e, name) ==
    LET waiting == clast.op = "model" /\ clast.out = "checking" /\ clast.inp.e = e /\ clast.inp.name = name
        inp == [NoInput EXCEPT !.e = e, !.name = name]
    IN  /\ UNCHANGED <<connected, curEnv, sessCtx, wire>>
        /\ UNCHANGED <<rsVars, prVars, connector>>
        /\ \/ /\ name \notin DOMAIN envs[e].registry
              /\ IF waiting THEN clast.calls < 2 ELSE TRUE
              /\ clast' = [Outcome("model", "checking") EXCEPT
                              !.inp = inp, !.calls = IF waiting THEN clast.calls + 1 ELSE 1]
              /\ UNCHANGED <<envs, models>>
           \/ /\ waiting
              /\ models' = Append(models, [env |-> e, name |-> name])
              /\ envs' = [envs EXCEPT ![e].registry =
                             [n \in (DOMAIN @) \cup {name} |-> IF n = name THEN Len(models) + 1 ELSE @[n]]]
              /\ clast' = [Outcome("model", IF clast.calls > 1 THEN "checking" ELSE "done") EXCEPT
                              !.inp = inp, !.calls = clast.calls - 1, !.ret = RetModel(Len(models) + 1)]
           \/ /\ ~waiting
              /\ name \in DOMAIN envs[e].registry
              /\ clast' = [Outcome("model", "done") EXCEPT !.inp = inp, !.ret = RetModel(envs[e].registry[name])]
              /\ UNCHANGED <<envs, models>>

\* env.model(name): a Model is created and registered on first access; the
\* registered Model is returned.
EnvModel(e, name) ==
    /\ IF name \in DOMAIN envs[e].registry
       THEN UNCHANGED <<envs, models>>
       ELSE /\ models' = Append(models, [env |-> e, name |-> name])
            /\ envs' = [envs EXCEPT ![e].registry =
                           [n \in (DOMAIN @) \cup {name} |-> IF n = name THEN Len(models) + 1 ELSE @[n]]]
    /\ clast' = [Outcome("model", "done") EXCEPT !.inp = [NoInput EXCEPT !.e = e, !.name = name],
                                                 !.ret = RetModel(envs'[e].registry[name])]
    /\ UNCHANGED <<connected, curEnv, sessCtx, wire>>
    /\ UNCHANGED <<rsVars, prVars, connector>>

\* new Environment(client, database, uid, { ...this._context, ...ctx }).
\* parent, patch and born are not fields of the object: they record the
\* Environment it was derived from (0: created by login), the patch, and the
\* context it was constructed with.
Derived(e, ctx) ==
    [context |-> Spread(envs[e].context, ctx), registry |-> EmptyMap,
     database |-> envs[e].database, uid |-> envs[e].uid,
     parent |-> e, patch |-> ctx, born |-> Spread(envs[e].context, ctx)]

\* env.withContext(ctx)
EnvWithContext(e, ctx) ==
    /\ Len(envs) + LoginsInFlight < MaxEnvs
    /\ envs' = Append(envs, Derived(e, ctx))
    /\ clast' = [Outcome("withContext", "done") EXCEPT !.inp = [NoInput EXCEPT !.e = e, !.patch = ctx]]
    /\ UNCHANGED <<connected, curEnv, sessCtx, models, wire>>
    /\ UNCHANGED <<rsVars, prVars, connector>>

\* Variant: the Model is constructed on the derived Environment but not
\* entered into its registry.
ModelDerive_Unregistered(m, ctx) ==
    /\ Len(envs) + LoginsInFlight < MaxEnvs
    /\ models' = Append(models, [env |-> Len(envs) + 1, name |-> models[m].name])
    /\ envs' = Append(envs, Derived(models[m].env, ctx))
    /\ clast' = [Outcome("withContext", "done") EXCEPT
                    !.inp = [NoInput EXCEPT !.e = models[m].env, !.m = m, !.patch = ctx],
                    !.ret = RetModel(Len(models) + 1)]
    /\ UNCHANGED <<connected, curEnv, sessCtx, wire, connector>>

\* this.env.withContext(ctx).model(this.name): the derived Environment, and
\* the Model of the same name that its registry creates on this first access.
ModelDerive(m, ctx) ==
    /\ Len(envs) + LoginsInFlight < MaxEnvs
    /\ models' = Append(models, [env |-> Len(envs) + 1, name |-> models[m].name])
    /\ envs' = Append(envs, [Derived(models[m].env, ctx) EXCEPT !.registry =
                                [n \in {models[m].name} |-> Len(models) + 1]])
    /\ clast' = [Outcome("withContext", "done") EXCEPT
                    !.inp = [NoInput EXCEPT !.e = models[m].env, !.m = m, !.patch = ctx],
                    !.ret = RetModel(Len(models) + 1)]
    /\ UNCHANGED <<connected, curEnv, sessCtx, wire, connector>>

\* model.withContext(ctx)
ModelWithContext(m, ctx) ==
    /\ ModelDerive(m, ctx)
    /\ UNCHANGED <<rsVars, prVars>>

\* Variant: the getter hands out the _context object itself.
ContextGet_Shared(e) == RetContext(envs[e].context, e)

\* get context(): { ...this._context }, a new object.
ContextGet(e) == RetContext(Spread(envs[e].context, EmptyMap), 0)

\* env.context
EnvContextGet(e) ==
    /\ clast' = [Outcome("context", "done") EXCEPT !.inp = [NoInput EXCEPT !.e = e], !.ret = ContextGet(e)]
    /\ UNCHANGED <<connected, curEnv, sessCtx, envs, models, wire>>
    /\ UNCHANGED <<rsVars, prVars, connector>>

\* The caller sets a key of the mapping that env.context returned last.  An
\* Environment whose _context is that same object sees the change.
MutateReturned(key, value) ==
    /\ clast.op \in {"context", "mutate"}
    /\ LET obj == Spread(clast.ret.obj, [k \in {key} |-> value])
       IN  /\ clast' = [clast EXCEPT !.op = "mutate", !.ret.obj = obj]
           /\ envs' = IF clast.ret.shares = 0 THEN envs
                      ELSE [envs EXCEPT ![clast.ret.shares].context = obj]
    /\ UNCHANGED <<connected, curEnv, sessCtx, models, wire>>
    /\ UNCHANGED <<rsVars, prVars, connector>>

\* ------------------------------------------------------ client: executeKw
\* kwargs = {} when the caller passes none.
DefaultKwargs(kwIn) == IF kwIn.given THEN kwIn.kw ELSE EmptyMap

\* kwargs.context, spread: nothing when absent.
KwContext(kw) == IF "context" \in DOMAIN kw THEN kw["context"] ELSE EmptyMap

\* { context: { ...this._context, ...kwargs.context }, ...kwargs }
OutKwargs(kw) == Spread([k \in {"context"} |-> Spread(sessCtx, KwContext(kw))], kw)

\* Variant: only the connector is required, not the session.
EnsureAuthenticated_ConnectedOnly ==
    IF ~connected THEN "err_not_connected"
    ELSE ""

\* ensureAuthenticated(), which calls ensureConnected() first: the error
\* raised, "" when there is none.
EnsureAuthenticated ==
    IF ~connected THEN "err_not_connected"
    ELSE IF curEnv = 0 THEN "err_not_authenticated"
    ELSE ""

\* OdooClient.executeKw(model, method, args, kwargs), reached through
\* Environment e (0 when the caller calls the client itself); inp is what
\* the caller of the Model operation passed.
ClientExecuteKw(e, model, method, args, kwIn, inp) ==
    /\ UNCHANGED <<connected, curEnv, sessCtx, envs, models, wire>>
    /\ UNCHANGED <<rsVars, prVars, connector>>
    /\ IF EnsureAuthenticated # ""
       THEN clast' = [Outcome(method, EnsureAuthenticated) EXCEPT !.inp = inp]
       ELSE clast' = [Sent(method, Req(model, method, args, OutKwargs(DefaultKwargs(kwIn)), e, kwIn))
                         EXCEPT !.inp = inp]

\* client.call(endpoint, params), up to the await: only the connector is
\* required.
ClientCall(endpoint) ==
    /\ UNCHANGED <<connected, curEnv, sessCtx, envs, models>>
    /\ UNCHANGED <<rsVars, prVars, connector>>
    /\ IF ~connected
       THEN /\ clast' = Outcome("call", "err_not_connected")
            /\ UNCHANGED wire
       ELSE /\ Len(wire) < MaxWire
            /\ wire' = Append(wire, SessionReq(endpoint, ""))
            /\ clast' = [Sent("call", <<>>) EXCEPT !.out = "awaiting"]

\* client.call: the connector resolved (ok, having stored the session
\* information info) or rejected; the client passes on either.
ClientCallDone(k, ok, info) ==
    /\ wire[k].endpoint \notin {"/web/session/authenticate", "/web/session/destroy"}
    /\ wire' = WireRemove(k)
    /\ connector' = IF ok /\ ~wire[k].stale THEN Receive(connector, info) ELSE connector
    /\ clast' = [Outcome("call", IF ok THEN "done" ELSE "err_rpc") EXCEPT
                    !.reply = IF ok THEN NoReply ELSE ErrorReply(200),
                    !.ret = IF ok THEN NoRet ELSE Raised(200)]
    /\ UNCHANGED <<connected, curEnv, sessCtx, envs, models>>
    /\ UNCHANGED <<rsVars, prVars>>

\* Environment.executeKw(model, method, args, kwargs)
EnvExecuteKw(e, model, method, args, kwIn, inp) == ClientExecuteKw(e, model, method, args, kwIn, inp)

\* A Model operation that returns ret without calling the gateway.
LocalReturn(method, ret, inp) ==
    /\ clast' = [Outcome(method, "local") EXCEPT !.inp = inp, !.ret = ret]
    /\ UNCHANGED <<connected, curEnv, sessCtx, envs, models, wire>>
    /\ UNCHANGED <<rsVars, prVars, connector>>

\* The caller calls client.executeKw directly.
ExecuteKw(model, method, kwIn) == ClientExecuteKw(0, model, method, <<<<>>>>, kwIn, NoInput)

\* ---------------------------------------------------------- client: Model
\* Variant: offset is always sent, 0 when the caller left it out.
OptionKwargs_AlwaysOffset(options) ==
    [k \in ((DOMAIN options) \cap {"limit", "offset", "order"}) \cup {"offset"} |->
        IF k \in DOMAIN options THEN options[k] ELSE 0]

\* limit, offset and order, each only when the caller defined it.
OptionKwargs(options) == [k \in (DOMAIN options) \cap {"limit", "offset", "order"} |-> options[k]]

ModelSearch(m, domain, options) ==
    EnvExecuteKw(models[m].env, models[m].name, "search", <<domain>>, Given(OptionKwargs(options)),
                 [NoInput EXCEPT !.m = m, !.domain = domain, !.options = options])

\* kwargs = { fields: fields.length > 0 ? fields : undefined, ... }
ModelSearchRead(m, domain, fields, options) ==
    EnvExecuteKw(models[m].env, models[m].name, "search_read", <<domain>>,
                 Given(Spread([k \in {"fields"} |-> IF Len(fields) > 0 THEN fields ELSE Undefined],
                              OptionKwargs(options))),
                 [NoInput EXCEPT !.m = m, !.domain = domain, !.fields = fields, !.options = options])

ModelRead(m, theIds, fields) ==
    IF Len(theIds) = 0
    THEN LocalReturn("read", RetRows(<<>>), [NoInput EXCEPT !.m = m, !.ids = theIds, !.fields = fields])
    ELSE EnvExecuteKw(models[m].env, models[m].name, "read", <<theIds>>,
                      Given(IF Len(fields) > 0 THEN [k \in {"fields"} |-> fields] ELSE EmptyMap),
                      [NoInput EXCEPT !.m = m, !.ids = theIds, !.fields = fields])

ModelCreate(m, values) ==
    EnvExecuteKw(models[m].env, models[m].name, "create", <<values>>, NotGiven, [NoInput EXCEPT !.m = m])

\* Variant: no early return, the gateway is called for an empty list too.
ModelWrite_NoFastPath(m, theIds, values) ==
    EnvExecuteKw(models[m].env, models[m].name, "write", <<theIds, values>>, NotGiven,
                 [NoInput EXCEPT !.m = m, !.ids = theIds])

ModelWrite(m, theIds, values) ==
    IF Len(theIds) = 0
    THEN LocalReturn("write", RetBool(TRUE), [NoInput EXCEPT !.m = m, !.ids = theIds])
    ELSE EnvExecuteKw(models[m].env, models[m].name, "write", <<theIds, values>>, NotGiven,
                      [NoInput EXCEPT !.m = m, !.ids = theIds])

ModelUnlink(m, theIds) ==
    IF Len(theIds) = 0
    THEN LocalReturn("unlink", RetBool(TRUE), [NoInput EXCEPT !.m = m, !.ids = theIds])
    ELSE EnvExecuteKw(models[m].env, models[m].name, "unlink", <<theIds>>, NotGiven,
                      [NoInput EXCEPT !.m = m, !.ids = theIds])

ModelCall(m, method, kwIn) ==
    EnvExecuteKw(models[m].env, models[m].name, method, <<>>, kwIn, [NoInput EXCEPT !.m = m])

ModelFieldsGet(m, fields) ==
    EnvExecuteKw(models[m].env, models[m].name, "fields_get", <<>>,
                 Given(IF Len(fields) > 0 THEN [k \in {"attributes"} |-> fields] ELSE EmptyMap),
                 [NoInput EXCEPT !.m = m, !.fields = fields])

ModelSearchCount(m, domain) ==
    EnvExecuteKw(models[m].env, models[m].name, "search_count", <<domain>>, NotGiven,
                 [NoInput EXCEPT !.m = m, !.domain = domain])

\* Variant: an identifier returned alone is not wrapped into a list.
Browse_ArrayOnly(reply) == reply.ids

\* Model.browse(ids): Array.isArray(ids) ? ids : [ids]
Browse(reply) == IF reply.kind = "number" THEN <<reply.n>> ELSE reply.ids

\* What the gateway can answer to search: the identifiers of some of the
\* records, in the order the server chose.
Ascending == [i \in 1..MaxId |-> i]
SearchReplies == (UNION {SubSeqs(s) : s \in IdSeqs}) \cup {Ascending}

\* ... to search_read: one row per record found, with the requested fields.
SearchReadReplies(fields) == UNION {RowsFor(s, fields) : s \in SearchReplies}

\* Variant: the cache is filled but the RecordSet is not marked as loaded.
SearchReadResult_NotLoaded(data) ==
    [ids |-> [k \in DOMAIN data |-> data[k]["id"].n], loaded |-> FALSE, cache |-> Store(EmptyMap, data)]

\* searchRead after the await: browse(data.map(r => r.id)), the cache filled
\* record by record, loaded = true (an assignment through the Proxy).
SearchReadResult(data) ==
    [ids |-> [k \in DOMAIN data |-> data[k]["id"].n], loaded |-> TRUE, cache |-> Store(EmptyMap, data)]

\* The Model operation in flight, if any.
Awaited(method) == clast.sent /\ clast.out = "sent" /\ clast.op = method /\ clast.inp.m # 0

\* search: the continuation after executeKw resolved with theIds.
ModelSearchResolve(theIds) ==
    /\ Awaited("search")
    /\ clast' = [clast EXCEPT !.out = "resolved", !.reply = IdsReply(theIds),
                              !.ret = RetRecordSet(Fresh(Browse(IdsReply(theIds))))]
    /\ UNCHANGED <<connected, curEnv, sessCtx, envs, models, wire>>
    /\ UNCHANGED <<rsVars, prVars, connector>>

\* searchRead: the continuation after executeKw resolved with data.
ModelSearchReadResolve(data) ==
    /\ Awaited("search_read")
    /\ IF AllowedSet("loaded")
       THEN clast' = [clast EXCEPT !.out = "resolved", !.reply = RowsReply(data),
                                   !.ret = RetRecordSet(SearchReadResult(data))]
       ELSE clast' = [clast EXCEPT !.out = "err_assign", !.reply = RowsReply(data)]
    /\ UNCHANGED <<connected, curEnv, sessCtx, envs, models, wire>>
    /\ UNCHANGED <<rsVars, prVars, connector>>

\* create: the continuation after executeKw resolved with the new id.
ModelCreateResolve(id) ==
    /\ Awaited("create")
    /\ clast' = [clast EXCEPT !.out = "resolved", !.reply = NumberReply(id),
                              !.ret = RetRecordSet(Fresh(Browse(NumberReply(id))))]
    /\ UNCHANGED <<connected, curEnv, sessCtx, envs, models, wire>>
    /\ UNCHANGED <<rsVars, prVars, connector>>

\* searchCount: executeKw resolved with n.  exists returns count > 0.
ModelCountResolve(n) ==
    /\ Awaited("search_count")
    /\ clast' = [clast EXCEPT !.out = "resolved", !.reply = NumberReply(n),
                              !.ret = IF clast.inp.caller = "exists" THEN RetBool(n > 0) ELSE RetNumber(n)]
    /\ UNCHANGED <<connected, curEnv, sessCtx, envs, models, wire>>
    /\ UNCHANGED <<rsVars, prVars, connector>>

\* exists(domain): await this.searchCount(domain)
ModelExists(m, domain) ==
    EnvExecuteKw(models[m].env, models[m].name, "search_count", <<domain>>, NotGiven,
                 [NoInput EXCEPT !.m = m, !.domain = domain, !.caller = "exists"])

\* rs.read(fields) on the RecordSet that the last Model operation returned,
\* up to the await: this.model.read(this._ids, fields).
ReturnedRead(fields) ==
    /\ clast.out = "resolved"
    /\ clast.ret.kind = "recordset"
    /\ LET rs == clast.ret.rs
           m == clast.inp.m
           inp == [NoInput EXCEPT !.m = m, !.ids = rs.ids, !.fields = fields,
                                  !.caller = "recordset", !.held = rs]
       IN  IF Len(rs.ids) = 0
           THEN LocalReturn("read", RetRecordSet([rs EXCEPT !.loaded = TRUE]), inp)
           ELSE EnvExecuteKw(models[m].env, models[m].name, "read", <<rs.ids>>,
                             Given(IF Len(fields) > 0 THEN [k \in {"fields"} |-> fields] ELSE EmptyMap), inp)

\* rs.read: the continuation after model.read resolved with data.
ReturnedReadResolve(data) ==
    /\ Awaited("read")
    /\ clast.inp.caller = "recordset"
    /\ clast' = [clast EXCEPT !.out = "resolved", !.reply = RowsReply(data),
                              !.ret = RetRecordSet([clast.inp.held EXCEPT
                                                      !.loaded = TRUE, !.cache = Store(@, data)])]
    /\ UNCHANGED <<connected, curEnv, sessCtx, envs, models, wire>>
    /\ UNCHANGED <<rsVars, prVars, connector>>

\* Variant: a rejected call is answered with an empty result.
ModelReject_Swallows(code) ==
    /\ clast.sent /\ clast.out = "sent" /\ clast.inp.m # 0
    /\ clast' = [clast EXCEPT !.out = "resolved", !.reply = ErrorReply(code),
                              !.ret = [RetRows(<<>>) EXCEPT !.rs = [clast.inp.held EXCEPT !.loaded = TRUE]]]
    /\ UNCHANGED <<connected, curEnv, sessCtx, envs, models, wire>>
    /\ UNCHANGED <<rsVars, prVars, connector>>

\* The executeKw that a Model operation awaits was rejected: no operation
\* catches, the error leaves every method on the way to the caller, and a
\* RecordSet that was being read (ret.rs) has not been assigned to.
ModelReject(code) ==
    /\ clast.sent /\ clast.out = "sent" /\ clast.inp.m # 0
    /\ clast' = [clast EXCEPT !.out = "rejected", !.reply = ErrorReply(code),
                              !.ret = [Raised(code) EXCEPT !.rs = clast.inp.held]]
    /\ UNCHANGED <<connected, curEnv, sessCtx, envs, models, wire>>
    /\ UNCHANGED <<rsVars, prVars, connector>>

\* The error codes of the gateway in the model.
ErrorCodes == {200, 404}

\* The values written in the model.
SomeValues == [k \in {"name"} |-> "X"]
WriteValues == <<EmptyMap, SomeValues>>

\* The key a caller sets in a context mapping it was handed.
MutateKeys == {"lang"}

\* ------------------------------------------- client: RecordSets of a session
\* The RecordSets that callers hold next to the client.  A RecordSet is the
\* fields of the object (model: an index into models) and, for the two
\* fields that hold a mutable object, which object it is: idsRef names the
\* array behind _ids and cacheRef the Map behind cache.  Two RecordSets with
\* the same reference hold the same object.  The Map and the array that the
\* constructor of the i-th RecordSet receives or creates are named i, the
\* array that its unlink() assigns is named -i.
MaxSets == 1

RecordSetOn(m, theIds, ref) ==
    [model |-> m, ids |-> theIds, loaded |-> FALSE, cache |-> EmptyMap,
     idsRef |-> ref, cacheRef |-> Len(rsets) + 1]

\* cache.set / cache.clear on the Map named ref: every holder sees it.
CachePut(ref, theCache) ==
    [j \in DOMAIN rsets |-> IF rsets[j].cacheRef = ref THEN [rsets[j] EXCEPT !.cache = theCache] ELSE rsets[j]]

\* The gateway call of a RecordSet, as awaited.
SetRequest(i, op, fields) == [set |-> i, op |-> op, sent |-> rsets[i].ids, fields |-> fields]

\* model.browse(theIds): a RecordSet over the caller's identifiers.
ModelBrowse(m, theIds) ==
    /\ Len(rsets) < MaxSets
    /\ rsets' = Append(rsets, RecordSetOn(m, theIds, Len(rsets) + 1))
    /\ UNCHANGED rcalls
    /\ UNCHANGED <<rsVars, clVars>>

\* this.model.read / write / unlink(this._ids, ...) of a RecordSet that
\* holds identifiers, up to the await: Model, Environment and OdooClient
\* pass the call on, and executeKw hands it to the connector once
\* ensureAuthenticated() let it through.  When it raises, nothing changes.
RecordSetCall(i, op, fields) ==
    /\ UNCHANGED rsets
    /\ IF EnsureAuthenticated # ""
       THEN UNCHANGED rcalls
       ELSE /\ BagCardinality(rcalls) < MaxPending
            /\ rcalls' = rcalls (+) SetToBag({SetRequest(i, op, fields)})

\* rs.read(fields), up to the await.
RecordSetRead(i, fields) ==
    /\ UNCHANGED <<rsVars, clVars>>
    /\ IF Len(rsets[i].ids) = 0
       THEN /\ rsets' = [rsets EXCEPT ![i].loaded = TRUE]
            /\ UNCHANGED rcalls
       ELSE RecordSetCall(i, "read", fields)

\* rs.read: the continuation after model.read resolved with data.
RecordSetReadResolve(r, data) ==
    /\ UNCHANGED <<rsVars, clVars>>
    /\ r.op = "read"
    /\ rsets' = [CachePut(rsets[r.set].cacheRef, Store(rsets[r.set].cache, data)) EXCEPT ![r.set].loaded = TRUE]
    /\ rcalls' = rcalls (-) SetToBag({r})

\* rs.write(values), up to the await.
RecordSetWrite(i) ==
    /\ UNCHANGED <<rsVars, clVars>>
    /\ IF Len(rsets[i].ids) = 0
       THEN UNCHANGED <<rsets, rcalls>>
       ELSE RecordSetCall(i, "write", <<>>)

\* rs.write: the continuation after model.write resolved with result.
RecordSetWriteResolve(r, result) ==
    /\ UNCHANGED <<rsVars, clVars>>
    /\ r.op = "write"
    /\ rsets' = IF result
                THEN [CachePut(rsets[r.set].cacheRef, EmptyMap) EXCEPT ![r.set].loaded = FALSE]
                ELSE rsets
    /\ rcalls' = rcalls (-) SetToBag({r})

\* rs.unlink(), up to the await.
RecordSetUnlink(i) ==
    /\ UNCHANGED <<rsVars, clVars>>
    /\ IF Len(rsets[i].ids) = 0
       THEN UNCHANGED <<rsets, rcalls>>
       ELSE RecordSetCall(i, "unlink", <<>>)

\* rs.unlink: the continuation after model.unlink resolved with result;
\* this._ids = [] is a new array.
RecordSetUnlinkResolve(r, result) ==
    /\ UNCHANGED <<rsVars, clVars>>
    /\ r.op = "unlink"
    /\ rsets' = IF result
                THEN [CachePut(rsets[r.set].cacheRef, EmptyMap) EXCEPT
                         ![r.set].loaded = FALSE, ![r.set].ids = <<>>, ![r.set].idsRef = 0 - r.set]
                ELSE rsets
    /\ rcalls' = rcalls (-) SetToBag({r})

\* The awaited call of a RecordSet was rejected: the error propagates.
RecordSetReject(r) ==
    /\ UNCHANGED <<rsVars, clVars>>
    /\ rcalls' = rcalls (-) SetToBag({r})
    /\ UNCHANGED rsets

\* Variant: the derived RecordSet is given the Map of the source.
WithContextCopy_SharesCache(src, m) ==
    IF src.loaded
    THEN [RecordSetOn(m, src.ids, src.idsRef) EXCEPT !.loaded = TRUE, !.cache = src.cache, !.cacheRef = src.cacheRef]
    ELSE RecordSetOn(m, src.ids, src.idsRef)

\* new RecordSet(newModel, this._ids), then loaded = true and
\* cache = new Map(this.cache) when the source is loaded.
WithContextCopy(src, m) ==
    IF src.loaded
    THEN [RecordSetOn(m, src.ids, src.idsRef) EXCEPT !.loaded = TRUE, !.cache = src.cache]
    ELSE RecordSetOn(m, src.ids, src.idsRef)

\* rs.withContext(ctx)
RecordSetWithContext(i, ctx) ==
    /\ ModelDerive(rsets[i].model, ctx)
    /\ rsets' = Append(rsets, WithContextCopy(rsets[i], Len(models) + 1))
    /\ UNCHANGED rcalls
    /\ UNCHANGED rsVars

InitClient ==
    /\ RecordSetInit(<<>>)
    /\ ClientInit
    /\ NoRecordSets

NextClient ==
    \/ Connect
    \/ \E db \in {"test"} : LoginCall(db)
    \/ \E k \in DOMAIN wire : \E i \in DOMAIN LoginResults : LoginResolve(k, LoginResults[i], NoSessionInfo)
    \/ \E k \in DOMAIN wire : LoginReject(k, 200)
    \/ LogoutCall
    \/ \E k \in DOMAIN wire : LogoutDone(k, TRUE, NoSessionInfo)
    \/ \E e \in DOMAIN envs : \E name \in ClientModelNames : EnvModel(e, name)
    \/ \E e \in DOMAIN envs : \E i \in DOMAIN Patches : EnvWithContext(e, Patches[i])
    \/ \E m \in DOMAIN models : \E i \in DOMAIN Patches : ModelWithContext(m, Patches[i])
    \/ \E name \in ClientModelNames : \E i \in DOMAIN CallKwargs : ExecuteKw(name, "search", CallKwargs[i])
    \/ \E m \in DOMAIN models : \E d \in DOMAIN Domains : \E o \in DOMAIN SearchOptions :
          ModelSearch(m, Domains[d], SearchOptions[o])
    \/ \E m \in DOMAIN models : \E f \in FieldLists : \E o \in DOMAIN SearchOptions :
          ModelSearchRead(m, <<>>, f, SearchOptions[o])
    \/ \E m \in DOMAIN models : \E i \in DOMAIN CallIds : \E f \in FieldLists : ModelRead(m, CallIds[i], f)
    \/ \E m \in DOMAIN models : ModelCreate(m, SomeValues)
    \/ \E m \in DOMAIN models : \E i \in DOMAIN CallIds : \E v \in DOMAIN WriteValues :
          ModelWrite(m, CallIds[i], WriteValues[v])
    \/ \E m \in DOMAIN models : \E i \in DOMAIN CallIds : ModelUnlink(m, CallIds[i])
    \/ \E m \in DOMAIN models : \E i \in DOMAIN CallKwargs : ModelCall(m, "name_get", CallKwargs[i])
    \/ \E m \in DOMAIN models : \E f \in FieldLists : ModelFieldsGet(m, f)
    \/ \E m \in DOMAIN models : \E d \in DOMAIN Domains : ModelSearchCount(m, Domains[d])

SpecClient == InitClient /\ [][NextClient]_vars

\* The Environments of one session: the client after connect() and a login()
\* that succeeded, the Environments derived from client.env, their registries
\* and the context mappings handed to callers.
InitEnv ==
    /\ RecordSetInit(<<>>)
    /\ connected = TRUE
    /\ \E i \in DOMAIN LoginResults :
          /\ ~Falsy(LoginResults[i].uid)
          /\ sessCtx = LoginResults[i].ctx
          /\ envs = <<[context |-> LoginResults[i].ctx, registry |-> EmptyMap,
                       database |-> "test", uid |-> LoginResults[i].uid,
                       parent |-> 0, patch |-> EmptyMap, born |-> LoginResults[i].ctx]>>
    /\ curEnv = 1
    /\ models = <<>>
    /\ wire = <<>>
    /\ clast = Outcome("login", "done")
    /\ connector = NoSession
    /\ NoRecordSets

NextEnv ==
    \/ \E e \in DOMAIN envs : \E name \in EnvModelNames : EnvModel(e, name)
    \/ \E e \in DOMAIN envs : \E i \in DOMAIN Patches : EnvWithContext(e, Patches[i])
    \/ \E m \in DOMAIN models : \E i \in DOMAIN Patches : ModelWithContext(m, Patches[i])
    \/ \E e \in DOMAIN envs : EnvContextGet(e)
    \/ \E key \in MutateKeys : MutateReturned(key, "de_DE")

SpecEnv == InitEnv /\ [][NextEnv]_vars

\* The Models of a session, from a login() that succeeded to after logout():
\* every Model operation, and for search, searchRead and create the
\* continuation that builds the RecordSet from the gateway's answer.
NextModel ==
    \/ LogoutCall
    \/ \E k \in DOMAIN wire : LogoutDone(k, TRUE, NoSessionInfo)
    \/ \E e \in DOMAIN envs : \E name \in ClientModelNames : EnvModel(e, name)
    \/ \E m \in DOMAIN models : \E i \in DOMAIN Patches : ModelWithContext(m, Patches[i])
    \/ \E m \in DOMAIN models : \E d \in DOMAIN Domains : \E o \in DOMAIN SearchOptions :
          ModelSearch(m, Domains[d], SearchOptions[o])
    \/ \E theIds \in SearchReplies : ModelSearchResolve(theIds)
    \/ \E m \in DOMAIN models : \E f \in FieldLists : \E o \in DOMAIN SearchOptions :
          ModelSearchRead(m, <<>>, f, SearchOptions[o])
    \/ \E data \in SearchReadReplies(clast.inp.fields) : ModelSearchReadResolve(data)
    \/ \E m \in DOMAIN models : \E i \in DOMAIN CallIds : \E f \in FieldLists : ModelRead(m, CallIds[i], f)
    \/ \E m \in DOMAIN models : \E v \in DOMAIN WriteValues : ModelCreate(m, WriteValues[v])
    \/ \E id \in Ids : ModelCreateResolve(id)
    \/ \E m \in DOMAIN models : \E i \in DOMAIN CallIds : \E v \in DOMAIN WriteValues :
          ModelWrite(m, CallIds[i], WriteValues[v])
    \/ \E m \in DOMAIN models : \E i \in DOMAIN CallIds : ModelUnlink(m, CallIds[i])
    \/ \E m \in DOMAIN models : \E i \in DOMAIN CallKwargs : ModelCall(m, "name_get", CallKwargs[i])
    \/ \E m \in DOMAIN models : \E f \in FieldLists : ModelFieldsGet(m, f)
    \/ \E m \in DOMAIN models : \E d \in DOMAIN Domains : ModelSearchCount(m, Domains[d])

SpecModel == InitEnv /\ [][NextModel]_vars

\* ------------------------------------------------------- the connector alone
\* A request of JsonRpcConnector.call in flight: the Cookie header it was
\* sent with ("": none).  sid is not sent: it records what getSessionId()
\* returned when the request was built.
ConnReq(endpoint) ==
    [endpoint |-> endpoint, db |-> "", stale |-> FALSE, early |-> FALSE,
     cookie |-> connector.sessionCookie, sid |-> connector.sessionId]

\* What comes back for a request: a result, a JSON-RPC error envelope, an
\* HTTP or transport failure of axios, or a body that makes the handling
\* throw something else; each may come with session information.
ConnResponses ==
    {[kind |-> k, info |-> i] : k \in {"result", "envelope", "http", "other"},
                                i \in {NoSessionInfo, [body |-> "s1", cookie |-> ""], [body |-> "", cookie |-> "s2"]}}

\* error.code of the envelope, error.response?.status, undefined.
ErrorCodeOf(kind) == CASE kind = "envelope" -> 200 [] kind = "http" -> 500 [] OTHER -> 0

\* Variant: the session information of the response is stored before the
\* response is looked at.
ConnectorOutcome_StoresFirst(conn, resp) ==
    IF resp.kind = "result"
    THEN [conn |-> Receive(conn, resp.info), reply |-> NoReply, ret |-> NoRet]
    ELSE [conn |-> IF resp.kind = "envelope" THEN Receive(conn, resp.info) ELSE conn,
          reply |-> ErrorReply(ErrorCodeOf(resp.kind)), ret |-> Raised(ErrorCodeOf(resp.kind))]

\* JsonRpcConnector.call after the await: an error envelope throws before
\* the session is extracted, a failure of axios.post or any other thrown
\* value reaches the catch block, which rethrows an OdooRpcError (Raised);
\* a result has its session information stored and is returned.
ConnectorOutcome(conn, resp) ==
    IF resp.kind = "result"
    THEN [conn |-> Receive(conn, resp.info), reply |-> NoReply, ret |-> NoRet]
    ELSE [conn |-> conn,
          reply |-> ErrorReply(ErrorCodeOf(resp.kind)), ret |-> Raised(ErrorCodeOf(resp.kind))]

\* connector.call(endpoint, params), up to the await on axios.post.
ConnectorCall(endpoint) ==
    /\ Len(wire) < MaxWire
    /\ wire' = Append(wire, ConnReq(endpoint))
    /\ clast' = [Sent("call", ConnReq(endpoint)) EXCEPT !.out = "awaiting"]
    /\ UNCHANGED <<connected, curEnv, sessCtx, envs, models, connector>>
    /\ UNCHANGED <<rsVars, prVars>>

\* connector.call: the continuation once axios.post has settled with resp.
ConnectorRespond(k, resp) ==
    /\ wire' = WireRemove(k)
    /\ LET o == ConnectorOutcome(connector, resp)
       IN  /\ connector' = o.conn
           /\ clast' = [Outcome("call", IF resp.kind = "result" THEN "done" ELSE "err_rpc") EXCEPT
                           !.req = wire[k], !.inp.name = resp.kind, !.reply = o.reply, !.ret = o.ret]
    /\ UNCHANGED <<connected, curEnv, sessCtx, envs, models>>
    /\ UNCHANGED <<rsVars, prVars>>

\* connector.clearSession()
ConnectorClear ==
    /\ connector' = ConnectorClearSession(connector)
    /\ clast' = Outcome("clearSession", "done")
    /\ UNCHANGED <<connected, curEnv, sessCtx, envs, models, wire>>
    /\ UNCHANGED <<rsVars, prVars>>

\* A JsonRpcConnector on its own, from its construction: calls, their
\* responses in any order, and clearSession().
NextConn ==
    \/ ConnectorCall("/web/dataset/call_kw")
    \/ \E k \in DOMAIN wire : \E resp \in ConnResponses : ConnectorRespond(k, resp)
    \/ ConnectorClear

SpecConn == InitClient /\ [][NextConn]_vars

\* The model name that the callers of the smaller specifications use.
SetsModelName == "product.product"

\* The session of a client from its construction: connect, logins that
\* succeed, are refused or fail, logouts whose session-destroy call succeeds
\* or fails, and callers that keep using the client, an Environment, a Model
\* and a RecordSet across them.
SessionDatabases == {"test", "prod"}

\* What /web/session/authenticate answers in SpecSession: a uid that is
\* false, null, 0 or missing, or the uid of a user.
SessionLoginResults ==
    <<[uid |-> False, hasCtx |-> FALSE, ctx |-> EmptyMap],
      [uid |-> Null, hasCtx |-> FALSE, ctx |-> EmptyMap],
      [uid |-> Num(0), hasCtx |-> TRUE, ctx |-> [k \in {"lang"} |-> "en_US"]],
      [uid |-> Undefined, hasCtx |-> FALSE, ctx |-> EmptyMap],
      [uid |-> Num(2), hasCtx |-> FALSE, ctx |-> EmptyMap],
      [uid |-> Num(2), hasCtx |-> TRUE, ctx |-> [k \in {"lang"} |-> "en_US"]]>>

\* The session information of a response: none, a session_id in the result,
\* a session_id cookie.
SessionInfos ==
    {NoSessionInfo, [body |-> "s1", cookie |-> ""], [body |-> "", cookie |-> "s2"]}

NextSession ==
    \/ Connect
    \/ \E db \in SessionDatabases : LoginCall(db)
    \/ \E k \in DOMAIN wire : \E i \in DOMAIN SessionLoginResults : \E info \in SessionInfos :
          LoginResolve(k, SessionLoginResults[i], info)
    \/ \E k \in DOMAIN wire : LoginReject(k, 200)
    \/ LogoutCall
    \/ \E k \in DOMAIN wire : \E ok \in BOOLEAN : \E info \in SessionInfos : LogoutDone(k, ok, info)

SpecSession == InitClient /\ [][NextSession]_vars

\* The callers of a client across its session: calls on the client, and on
\* an Environment, a Model and a RecordSet obtained while logged in, made
\* before connect, before login, while logged in and after logout.
NextGuard ==
    \/ ~connected /\ Connect
    \/ LoginCall("test")
    \/ \E k \in DOMAIN wire : \E i \in {Len(LoginResults)} : LoginResolve(k, LoginResults[i], NoSessionInfo)
    \/ LogoutCall
    \/ \E k \in DOMAIN wire : LogoutDone(k, TRUE, NoSessionInfo)
    \/ ClientCall("/web/session/get_session_info")
    \/ \E k \in DOMAIN wire : ClientCallDone(k, TRUE, NoSessionInfo)
    \/ ExecuteKw(SetsModelName, "search", NotGiven)
    \/ \E e \in DOMAIN envs : EnvModel(e, SetsModelName)
    \/ \E e \in DOMAIN envs :
          EnvExecuteKw(e, SetsModelName, "search_count", <<<<>>>>, NotGiven, [NoInput EXCEPT !.e = e])
    \/ \E m \in DOMAIN models : ModelRead(m, <<1>>, <<>>)
    \/ \E m \in DOMAIN models : ModelBrowse(m, <<1>>)
    \/ \E i \in DOMAIN rsets : RecordSetRead(i, <<>>)
    \/ \E r \in BagToSet(rcalls) : RecordSetReject(r)

SpecGuard == InitClient /\ [][NextGuard]_vars

\* Failing gateway calls: every operation of a Model of the session, each
\* answered or rejected, and reads of the RecordSets that search and
\* searchRead returned.
NextFail ==
    \/ \E e \in DOMAIN envs : EnvModel(e, SetsModelName)
    \/ \E m \in DOMAIN models : \E o \in DOMAIN SearchOptions : ModelSearch(m, <<>>, SearchOptions[o])
    \/ \E theIds \in SearchReplies : ModelSearchResolve(theIds)
    \/ \E m \in DOMAIN models : \E f \in FieldLists : ModelSearchRead(m, <<>>, f, EmptyMap)
    \/ \E data \in SearchReadReplies(clast.inp.fields) : ModelSearchReadResolve(data)
    \/ \E m \in DOMAIN models : \E i \in DOMAIN CallIds : ModelRead(m, CallIds[i], <<>>)
    \/ \E m \in DOMAIN models : \E v \in DOMAIN WriteValues : ModelCreate(m, WriteValues[v])
    \/ \E m \in DOMAIN models : \E i \in DOMAIN CallIds : \E v \in DOMAIN WriteValues :
          ModelWrite(m, CallIds[i], WriteValues[v])
    \/ \E m \in DOMAIN models : \E i \in DOMAIN CallIds : ModelUnlink(m, CallIds[i])
    \/ \E m \in DOMAIN models : \E i \in DOMAIN CallKwargs : ModelCall(m, "name_get", CallKwargs[i])
    \/ \E m \in DOMAIN models : \E f \in FieldLists : ModelFieldsGet(m, f)
    \/ \E m \in DOMAIN models : \E d \in DOMAIN Domains : ModelSearchCount(m, Domains[d])
    \/ \E m \in DOMAIN models : \E d \in DOMAIN Domains : ModelExists(m, Domains[d])
    \/ \E n \in 0..1 : ModelCountResolve(n)
    \/ \E f \in FieldLists : ReturnedRead(f)
    \/ \E data \in ReadReplies(clast.inp.ids, clast.inp.fields) : ReturnedReadResolve(data)
    \/ \E code \in ErrorCodes : ModelReject(code)

SpecFail == InitEnv /\ [][NextFail]_vars

\* The RecordSets of one session: a RecordSet that browse returned on a
\* Model of client.env, those derived from it by withContext, and callers
\* that read, write, unlink, iterate and inspect any of them in any order.

InitSets ==
    /\ RecordSetInit(<<>>)
    /\ connected = TRUE
    /\ connector = NoSession
    /\ \E i \in {Len(LoginResults)} :
          /\ ~Falsy(LoginResults[i].uid)
          /\ sessCtx = LoginResults[i].ctx
          /\ envs = <<[context |-> LoginResults[i].ctx, registry |-> [n \in {SetsModelName} |-> 1],
                       database |-> "test", uid |-> LoginResults[i].uid,
                       parent |-> 0, patch |-> EmptyMap, born |-> LoginResults[i].ctx]>>
    /\ curEnv = 1
    /\ models = <<[env |-> 1, name |-> SetsModelName]>>
    /\ wire = <<>>
    /\ clast = [Outcome("model", "done") EXCEPT !.inp = [NoInput EXCEPT !.e = 1, !.name = SetsModelName],
                                                !.ret = RetModel(1)]
    /\ \E theIds \in IdSeqs :
          rsets = <<[model |-> 1, ids |-> theIds, loaded |-> FALSE, cache |-> EmptyMap,
                     idsRef |-> 1, cacheRef |-> 1]>>
    /\ rcalls = EmptyBag

\* The answers to read in SpecSets: a row for every record asked, all in
\* the same version.
WholeRows(sent, fields) == {[k \in DOMAIN sent |-> Project(ServerRow(sent[k], v), fields)] : v \in Versions}

NextSets ==
    \/ \E i \in DOMAIN rsets : RecordSetRead(i, <<>>)
    \/ \E r \in BagToSet(rcalls) : \E data \in WholeRows(r.sent, r.fields) : RecordSetReadResolve(r, data)
    \/ \E i \in DOMAIN rsets : RecordSetWrite(i)
    \/ \E r \in BagToSet(rcalls) : \E result \in BOOLEAN : RecordSetWriteResolve(r, result)
    \/ \E i \in DOMAIN rsets : RecordSetUnlink(i)
    \/ \E r \in BagToSet(rcalls) : \E result \in BOOLEAN : RecordSetUnlinkResolve(r, result)
    \/ \E r \in BagToSet(rcalls) : RecordSetReject(r)
    \/ \E i \in DOMAIN rsets : \E c \in DOMAIN Patches : RecordSetWithContext(i, Patches[c])

SpecSets == InitSets /\ [][NextSets]_vars

\* Variant: the single-record RecordSet is given the parent's Map.
ChildOf_SharesCache(src, id) ==
    IF src.loaded /\ id \in DOMAIN src.cache
    THEN [RecordSetOn(src.model, <<id>>, Len(rsets) + 1) EXCEPT
             !.loaded = TRUE, !.cache = src.cache, !.cacheRef = src.cacheRef]
    ELSE RecordSetOn(src.model, <<id>>, Len(rsets) + 1)

\* this.model.browse(id), then loaded = true and cache.set(id, record) on
\* the new RecordSet when the parent is loaded and has the record cached: a
\* RecordSet with an array and a Map of its own.
ChildOf(src, id) ==
    [RecordSetOn(src.model, <<id>>, Len(rsets) + 1) EXCEPT
        !.loaded = Single(id, src.loaded, src.cache).loaded,
        !.cache = Single(id, src.loaded, src.cache).cache]

\* rs[k], or the step of the iteration over rs that yields its k-th record.
RecordSetChild(i, k) ==
    /\ Len(rsets) < MaxSets + 1
    /\ k \in DOMAIN rsets[i].ids
    /\ rsets' = Append(rsets, ChildOf(rsets[i], rsets[i].ids[k]))
    /\ UNCHANGED rcalls
    /\ UNCHANGED <<rsVars, clVars>>

\* A RecordSet and the single-record RecordSets made from it by iteration
\* and indexed access, each read, written and unlinked in any order.
NextKids ==
    \/ \E i \in DOMAIN rsets : \E k \in 1..MaxId : RecordSetChild(i, k)
    \/ \E i \in DOMAIN rsets : RecordSetRead(i, <<>>)
    \/ \E r \in BagToSet(rcalls) : \E data \in WholeRows(r.sent, r.fields) : RecordSetReadResolve(r, data)
    \/ \E i \in DOMAIN rsets : RecordSetWrite(i)
    \/ \E r \in BagToSet(rcalls) : \E result \in BOOLEAN : RecordSetWriteResolve(r, result)
    \/ \E i \in DOMAIN rsets : RecordSetUnlink(i)
    \/ \E r \in BagToSet(rcalls) : \E result \in BOOLEAN : RecordSetUnlinkResolve(r, result)

SpecKids == InitSets /\ [][NextKids]_vars

\* Call chains that share the Environment of the session: each asks the
\* Environment for a Model, and while the reads of some are awaited the
\* others go on asking.
NextChains ==
    \/ \E name \in EnvModelNames : EnvModel(curEnv, name)
    \/ \E m \in DOMAIN models : ModelBrowse(m, <<1>>)
    \/ \E i \in DOMAIN rsets : RecordSetRead(i, <<>>)
    \/ \E r \in BagToSet(rcalls) : \E data \in WholeRows(r.sent, r.fields) : RecordSetReadResolve(r, data)
    \/ \E r \in BagToSet(rcalls) : RecordSetReject(r)

SpecChains == InitEnv /\ [][NextChains]_vars

\* The synchronous face of a RecordSet: a RecordSet as Model.browse or
\* Model.searchRead returned it, and callers that read and assign its
\* properties through the Proxy.
Returned ==
    {Fresh(theIds) : theIds \in IdSeqs}
        \cup UNION {{SearchReadResult(data) : data \in SearchReadReplies(fields)} : fields \in FieldLists}

InitAssign ==
    /\ \E rs \in Returned :
          /\ ids = rs.ids
          /\ loaded = rs.loaded
          /\ cache = rs.cache
          /\ pending = EmptyBag
          /\ last = [op |-> "new", out |-> "", via |-> "local", prop |-> "", res |-> NoResult, data |-> <<>>, kids |-> <<>>, seen |-> NoArray,
                     pre |-> [ids |-> rs.ids, loaded |-> rs.loaded, cache |-> rs.cache, pending |-> EmptyBag]]
    /\ ClientInit
    /\ NoRecordSets

NextAssign ==
    \/ \E prop \in GetProps : FieldGet(prop)
    \/ \E prop \in SetProps : \E value \in SetValues(prop) : FieldSet(prop, value)

SpecAssign == InitAssign /\ [][NextAssign]_vars

\* ---------------------------------------------------- client: properties
\* ctx carries lang: 'fr_FR'.
IsFrench(ctx) == "lang" \in DOMAIN ctx /\ ctx["lang"] = "fr_FR"

\* The caller of the last call passed a context of its own in kwargs.
CallerGaveContext == "context" \in DOMAIN clast.req.kwIn.kw

\* C1: every gateway call issued through a Model of an Environment derived
\* with { lang: 'fr_FR' } reaches the connector with lang 'fr_FR' in its
\* context, and a call issued through a Model of an Environment without it
\* does not carry lang 'fr_FR' (calls whose caller passes no context itself).
C1_DerivedContextReachesGateway ==
    (clast.sent /\ clast.req.env # 0 /\ ~CallerGaveContext)
        => (IsFrench(clast.req.kwargs["context"]) <=> IsFrench(envs[clast.req.env].context))

\* C2: when the caller passes kwargs.context, the context sent is the merge
\* of the session context with it: every key of the caller with the caller's
\* value, and every session key the caller did not pass with its own value.
C2_CallerContextMerged ==
    (clast.sent /\ CallerGaveContext)
        => LET out == clast.req.kwargs["context"]
               caller == clast.req.kwIn.kw["context"]
               sess == clast.req.sess
           IN  /\ \A k \in DOMAIN caller : k \in DOMAIN out /\ out[k] = caller[k]
               /\ \A k \in (DOMAIN sess) \ (DOMAIN caller) : k \in DOMAIN out /\ out[k] = sess[k]

\* The Model objects created for Environment e and entity-type name.
ModelsOf(e, name) == {m \in DOMAIN models : models[m].env = e /\ models[m].name = name}

\* C12: within one Environment, model(t) returns the same Model on every
\* call for the same name t, whatever model and withContext calls came in
\* between (one Model object per Environment and name is ever created, and
\* it is the one returned); the Models of two different Environments for the
\* same t, a derived Environment included, are distinct objects, and an
\* Environment derived by withContext starts with an empty registry.
C12_RegistryMemoization ==
    /\ \A e \in DOMAIN envs : \A name \in DOMAIN envs[e].registry :
          ModelsOf(e, name) = {envs[e].registry[name]}
    /\ \A e \in DOMAIN envs : \A name \in EnvModelNames \ DOMAIN envs[e].registry :
          ModelsOf(e, name) = {}
    /\ \A e1, e2 \in DOMAIN envs : \A name \in (DOMAIN envs[e1].registry) \cap (DOMAIN envs[e2].registry) :
          (e1 # e2) => envs[e1].registry[name] # envs[e2].registry[name]
    /\ (clast.op = "model")
          => (clast.ret.kind = "model" /\ ModelsOf(clast.inp.e, clast.inp.name) = {clast.ret.n})
    /\ (clast.op = "withContext" /\ clast.inp.m = 0) => envs[Len(envs)].registry = EmptyMap

\* model(t) has just returned, for the second time or more, the Model that
\* was registered before another Environment created its own Model for t.
C12_Witness ==
    /\ clast.op = "model" /\ clast.ret.n < Len(models)
    /\ \E e \in DOMAIN envs :
          /\ e # clast.inp.e
          /\ clast.inp.name \in DOMAIN envs[e].registry
          /\ envs[e].registry[clast.inp.name] > clast.ret.n
    /\ envs[Len(envs)].parent # 0

OnLiveSession == clast.inp.m # 0 /\ connected /\ curEnv # 0

\* C14: Model.write([], values) and Model.unlink([]) return true and
\* Model.read([], fields) returns an empty list, each without handing
\* anything to the connector, whatever the values, the fields and the state
\* of the session.
C14_EmptyFastPaths ==
    (clast.inp.m # 0 /\ clast.op \in {"read", "write", "unlink"} /\ clast.inp.ids = <<>>)
        => /\ ~clast.sent /\ clast.req = <<>>
           /\ clast.out = "local"
           /\ clast.op = "read" => (clast.ret.kind = "rows" /\ clast.ret.rows = <<>>)
           /\ clast.op \in {"write", "unlink"} => (clast.ret.kind = "boolean" /\ clast.ret.b = TRUE)

\* Model.write([], values) has just returned true on a client that has
\* logged out.
C14_Witness ==
    /\ clast.op = "write" /\ clast.inp.m # 0 /\ clast.inp.ids = <<>>
    /\ clast.out = "local" /\ clast.ret.b = TRUE
    /\ curEnv = 0

\* C16: on an authenticated client, Model.search(domain, options) hands the
\* connector one call_kw request for its entity type, with method 'search',
\* args [domain] and, of limit, offset and order, exactly the options the
\* caller defined with the caller's values; when the gateway answers, search
\* returns a RecordSet whose identifiers are the answer, in the same order,
\* not loaded and with an empty cache.
C16_SearchScenario ==
    (clast.op = "search" /\ OnLiveSession)
        => /\ clast.sent
           /\ clast.req.endpoint = "/web/dataset/call_kw"
           /\ clast.req.model = models[clast.inp.m].name
           /\ clast.req.method = "search"
           /\ clast.req.args = <<clast.inp.domain>>
           /\ \A k \in {"limit", "offset", "order"} :
                 /\ k \in DOMAIN clast.req.kwargs <=> k \in DOMAIN clast.inp.options
                 /\ k \in DOMAIN clast.inp.options => clast.req.kwargs[k] = clast.inp.options[k]
           /\ clast.out \in {"sent", "resolved"}
           /\ clast.out = "resolved"
                 => /\ clast.ret.kind = "recordset"
                    /\ clast.ret.rs.ids = clast.reply.ids
                    /\ ~clast.ret.rs.loaded
                    /\ clast.ret.rs.cache = EmptyMap

\* search with limit and order and no offset has just returned the two
\* identifiers of the answer, in the ascending order of the answer.
C16_Witness ==
    /\ clast.op = "search" /\ OnLiveSession /\ clast.out = "resolved"
    /\ DOMAIN clast.inp.options = {"limit", "order"}
    /\ Len(clast.inp.domain) = 1
    /\ clast.reply.ids = <<1, 2>> /\ clast.ret.rs.ids = <<1, 2>>

\* What field access returns for a raw value: its first element when it is a
\* two-element list that starts with a number, the raw value otherwise.
Projected(raw) == IF IsMany2one(raw) THEN Num(raw.a[1].n) ELSE raw

\* C17: on an authenticated client, Model.searchRead(domain, fields, options)
\* hands the connector one search_read request; when the gateway answers, it
\* returns a loaded RecordSet whose identifiers are the ids of the records of
\* the answer, in order; iterating it yields, for each record of the answer,
\* a loaded RecordSet of that one record on which every requested field (any
\* field when none was named) reads as the record's value, projected.
C17_SearchReadScenario ==
    (clast.op = "search_read" /\ OnLiveSession)
        => /\ clast.sent
           /\ clast.req.method = "search_read"
           /\ clast.out \in {"sent", "resolved"}
           /\ clast.out = "resolved"
                 => LET rs == clast.ret.rs
                        rows == clast.reply.rows
                        it == Iterate(rs.ids, rs.loaded, rs.cache)
                        wanted == IF clast.inp.fields = <<>> THEN FieldNames ELSE Range(clast.inp.fields)
                    IN  /\ clast.ret.kind = "recordset"
                        /\ rs.loaded
                        /\ Len(rs.ids) = Len(rows)
                        /\ \A k \in DOMAIN rows : rs.ids[k] = rows[k]["id"].n
                        /\ Len(it) = Len(rows)
                        /\ \A k \in DOMAIN rows :
                              /\ it[k].loaded
                              /\ it[k].ids = <<rows[k]["id"].n>>
                              /\ \A f \in wanted :
                                    ProxyGet(it[k].ids, it[k].loaded, it[k].cache, f)
                                        = Result("value", Projected(Prop(rows[k], f)), NoChild)

\* searchRead for all fields has just returned two records, the first of
\* which carries a Many2one value.
C17_Witness ==
    /\ clast.op = "search_read" /\ OnLiveSession /\ clast.out = "resolved"
    /\ clast.inp.fields = <<>>
    /\ Len(clast.reply.rows) = 2 /\ Len(clast.ret.rs.ids) = 2
    /\ IsMany2one(Prop(clast.reply.rows[1], "parent_id"))

\* C20: on an authenticated client, Model.create(values) hands the connector
\* one create request; when the gateway answers with the new identifier, it
\* returns a RecordSet of exactly that identifier, not loaded, with an empty
\* cache, on which every field access fails with 'field not loaded'.
C20_CreateScenario ==
    (clast.op = "create" /\ OnLiveSession)
        => /\ clast.sent
           /\ clast.req.method = "create"
           /\ clast.req.model = models[clast.inp.m].name
           /\ Len(clast.req.args) = 1
           /\ clast.out \in {"sent", "resolved"}
           /\ clast.out = "resolved"
                 => LET rs == clast.ret.rs
                    IN  /\ clast.ret.kind = "recordset"
                        /\ rs.ids = <<clast.reply.n>>
                        /\ ~rs.loaded
                        /\ rs.cache = EmptyMap
                        /\ \A f \in FieldNames :
                              ProxyGet(rs.ids, rs.loaded, rs.cache, f).kind = "err_not_loaded"

\* create has just returned the RecordSet of the identifier 2 that the
\* gateway answered.
C20_Witness ==
    /\ clast.op = "create" /\ OnLiveSession /\ clast.out = "resolved"
    /\ clast.reply.n = 2 /\ clast.ret.rs.ids = <<2>>

\* C22: model.withContext(patch) returns the Model that a newly derived
\* Environment has registered under the same name; the context of that
\* Environment is the original one merged with the patch; the Environments
\* that existed keep their registry and their context, and the original
\* Environment still answers the name with the original Model.
C22_ModelWithContext ==
    (clast.op = "withContext" /\ clast.inp.m # 0) =>
        LET m == clast.inp.m
            d == clast.ret.n
            o == models[m].env
            e == models[d].env
            name == models[m].name
        IN  /\ clast.ret.kind = "model"
            /\ d # m
            /\ e \notin DOMAIN clast.pre.envs
            /\ models[d].name = name
            /\ name \in DOMAIN envs[e].registry
            /\ envs[e].registry[name] = d
            /\ envs[e].context = Spread(clast.pre.envs[o].context, clast.inp.patch)
            /\ \A x \in DOMAIN clast.pre.envs : envs[x] = clast.pre.envs[x]
            /\ envs[o].registry[name] = m

\* A French Model was derived from a Model whose Environment is not French.
C22_Witness ==
    /\ clast.op = "withContext"
    /\ clast.inp.m # 0
    /\ IsFrench(envs[models[clast.ret.n].env].context)
    /\ ~IsFrench(envs[models[clast.inp.m].env].context)
    /\ envs[models[clast.inp.m].env].context # EmptyMap

\* ---------------------------------- RecordSets of a session: properties
\* What a caller can see of a RecordSet: isLoaded, the cache, the ids.
Observed(rs) == [isLoaded |-> rs.loaded, cache |-> rs.cache, ids |-> rs.ids]

\* The step is rs.withContext: a RecordSet is added to those of the session.
Derives == Len(rsets') = Len(rsets) + 1

\* The RecordSets withContext was called on: those bound to the Model that
\* Model.withContext received.
SourcesOf == {i \in DOMAIN rsets : rsets[i].model = clast'.inp.m}

\* C21: rs.withContext(patch) returns a new RecordSet with the identifiers of
\* rs, bound to the Model of that name of an Environment whose context is
\* that of rs's Environment merged with the patch; it is loaded with a copy
\* of rs's cache (another Map) when rs is loaded, unloaded with an empty cache
\* otherwise; and from then on a step changes isLoaded, cache or ids of one
\* RecordSet at most, the one whose read, write or unlink it is.
C21_WithContextIndependent ==
    [][/\ Derives =>
            /\ SourcesOf # {}
            /\ \A i \in SourcesOf :
                  LET d == rsets'[Len(rsets')]
                      e == models'[d.model].env
                      from == models[rsets[i].model]
                  IN  /\ d.ids = rsets[i].ids
                      /\ d.model \notin DOMAIN models
                      /\ models'[d.model].name = from.name
                      /\ e \notin DOMAIN envs
                      /\ envs'[e].registry[from.name] = d.model
                      /\ envs'[e].context = Spread(envs[from.env].context, clast'.inp.patch)
                      /\ d.loaded = rsets[i].loaded
                      /\ d.cache = (IF rsets[i].loaded THEN rsets[i].cache ELSE EmptyMap)
                      /\ \A j \in DOMAIN rsets : rsets[j].cacheRef # d.cacheRef
            /\ \A j \in DOMAIN rsets : rsets'[j] = rsets[j]
       /\ \A j \in DOMAIN rsets :
             Observed(rsets'[j]) # Observed(rsets[j]) =>
                /\ \A k \in DOMAIN rsets : k # j => Observed(rsets'[k]) = Observed(rsets[k])
                /\ \A r \in BagToSet(rcalls) : rcalls' = rcalls (-) SetToBag({r}) => r.set = j
      ]_vars

\* A RecordSet derived from a loaded one still holds the copied cache after a
\* write invalidated the source.
C21_Witness ==
    /\ Len(rsets) >= 2
    /\ rsets[1].ids # <<>>
    /\ rsets[2].ids = rsets[1].ids
    /\ ~rsets[1].loaded
    /\ rsets[1].cache = EmptyMap
    /\ rsets[2].loaded
    /\ rsets[2].cache # EmptyMap
    /\ IsFrench(envs[models[rsets[2].model].env].context)

\* ----------------------------------------------------------------------
\* failing gateway calls: properties
\* ----------------------------------------------------------------------

\* C26: when the gateway call of a Model operation (search, searchRead, read,
\* create, write, unlink, call, fieldsGet, searchCount, exists) fails, the
\* operation fails with that same failure after exactly one gateway call, and
\* a RecordSet.read that failed this way leaves the RecordSet's ids, loaded
\* flag and cache as they were.
C26_FailurePropagates ==
    (clast.inp.m # 0 /\ clast.reply.kind = "error") =>
        /\ clast.out = "rejected"
        /\ clast.ret.kind = "error"
        /\ clast.ret.n = clast.reply.n
        /\ clast.sent
        /\ clast.calls = 1
        /\ clast.inp.caller = "recordset" => clast.ret.rs = clast.inp.held

\* The read of a loaded RecordSet that searchRead returned was rejected.
C26_Witness ==
    /\ clast.op = "read"
    /\ clast.inp.caller = "recordset"
    /\ clast.out = "rejected"
    /\ clast.reply = ErrorReply(404)
    /\ clast.inp.held.loaded
    /\ clast.inp.held.cache # EmptyMap
    /\ clast.ret.rs = clast.inp.held

\* ----------------------------------------------------------------------
\* the session: properties
\* ----------------------------------------------------------------------

\* C27: a login whose response carries a truthy uid succeeds, and when it
\* has completed the client is authenticated and client.env reports the
\* database that was asked for, the returned uid as userId, and the returned
\* user_context as context (the empty mapping when user_context is absent).
C27_LoginOpensSession ==
    (clast.op = "login" /\ clast.reply.kind = "login" /\ ~Falsy(clast.reply.uid)) =>
        /\ clast.out = "done"
        /\ curEnv # 0
        /\ curEnv \notin DOMAIN clast.pre.envs
        /\ envs[curEnv].database = clast.inp.db
        /\ envs[curEnv].uid = clast.reply.uid
        /\ envs[curEnv].context = (IF clast.reply.has THEN clast.reply.obj ELSE EmptyMap)
        /\ envs[curEnv].registry = EmptyMap

\* A second login, into the other database and answered with a
\* user_context, has replaced the session of the first.
C27_Witness ==
    /\ clast.op = "login"
    /\ clast.out = "done"
    /\ clast.inp.db = "prod"
    /\ clast.reply.has
    /\ clast.pre.curEnv = 1
    /\ envs[1].database = "test"
    /\ curEnv = 2
    /\ envs[2].context # EmptyMap

\* C28: a login whose response carries a falsy uid (false, null, 0 or
\* missing) fails with an authentication error although the gateway call
\* succeeded, and a login that fails for any reason leaves isAuthenticated()
\* and the current env as they were.
C28_LoginFailureKeepsSession ==
    /\ (clast.op = "login" /\ clast.reply.kind = "login" /\ Falsy(clast.reply.uid)) =>
           clast.out = "err_auth"
    /\ (clast.op = "login" /\ clast.out # "done" /\ clast.out # "awaiting") =>
           /\ clast.out \in {"err_auth", "err_rpc", "err_not_connected"}
           /\ curEnv = clast.pre.curEnv
           /\ envs = clast.pre.envs

\* A login answered with uid null was refused while a session was open, and
\* the session is still the one of the earlier login.
C28_Witness ==
    /\ clast.op = "login"
    /\ clast.out = "err_auth"
    /\ clast.reply.uid = Null
    /\ curEnv = 1
    /\ clast.pre.curEnv = 1
    /\ Len(envs) = 1

\* C30: a logout() on a connected client completes without raising and ends
\* with the session cleared (no current env, the connector's session
\* identifier cleared), whether the session-destroy call succeeded or
\* failed, and the client stays connected.
C30_LogoutClearsSession ==
    /\ (clast.op = "logout" /\ clast.out \notin {"awaiting", "err_not_connected"}) =>
           /\ clast.out = "done"
           /\ clast.ret.kind # "error"
           /\ curEnv = 0
           /\ sessCtx = EmptyMap
           /\ connector.sessionId = ""
           /\ connected
    /\ (clast.op = "logout" /\ clast.out = "err_not_connected") => ~connected

\* The session-destroy call of a logged-in client failed, and the session is
\* cleared all the same.
C30_Witness ==
    /\ clast.op = "logout"
    /\ clast.out = "done"
    /\ clast.reply.kind = "error"
    /\ clast.pre.curEnv # 0
    /\ curEnv = 0
    /\ connector.sessionId = ""
    /\ connected

\* The methods that callers hand to executeKw.
KwMethods ==
    {"search", "search_read", "read", "create", "write", "unlink", "name_get", "fields_get", "search_count"}

\* C29: while the client is not authenticated, an executeKw call fails
\* locally and hands nothing to the connector, also when it is made through
\* an Environment, a Model or a RecordSet obtained before the logout; login,
\* logout and call before connect fail with the 'not connected' error, which
\* is also the error of executeKw when the client is neither connected nor
\* authenticated.
C29_NoRequestUnauthenticated ==
    [][ /\ (~connected \/ curEnv = 0) =>
            /\ \A r \in BagToSet(rcalls') : CopiesIn(r, rcalls') <= CopiesIn(r, rcalls)
            /\ (clast' # clast /\ clast'.op \in KwMethods) =>
                   /\ ~clast'.sent
                   /\ clast'.calls = 0
                   /\ clast'.out = (IF ~connected THEN "err_not_connected" ELSE "err_not_authenticated")
                   /\ wire' = wire
        /\ (~connected /\ clast' # clast /\ clast'.op \in {"login", "logout", "call"}) =>
               /\ clast'.out = "err_not_connected"
               /\ ~clast'.sent
               /\ wire' = wire
      ]_vars

\* After a logout, a read through a Model obtained while logged in, with a
\* RecordSet of that Model at hand, was refused locally.
C29_Witness ==
    /\ connected
    /\ curEnv = 0
    /\ Len(envs) >= 1
    /\ Len(rsets) = 1
    /\ clast.op = "read"
    /\ clast.inp.m # 0
    /\ clast.out = "err_not_authenticated"
    /\ ~clast.sent

\* ----------------------------------------------------------------------
\* one RecordSet under concurrent operations: properties
\* ----------------------------------------------------------------------

\* The rows of data that carry identifier i.
RowsOf(data, i) == {k \in DOMAIN data : "id" \in DOMAIN data[k] /\ data[k]["id"].n = i}

\* theCache with the entry of every fetched identifier replaced by the row
\* fetched for it.
Replaced(theCache, data) ==
    [i \in (DOMAIN theCache) \cup {data[k]["id"].n : k \in {j \in DOMAIN data : "id" \in DOMAIN data[j]}} |->
        IF RowsOf(data, i) # {}
        THEN data[CHOOSE k \in RowsOf(data, i) : \A j \in RowsOf(data, i) : j <= k]
        ELSE theCache[i]]

\* C31: every read() of a RecordSet that holds identifiers issues a gateway
\* call, loaded or not; its answer replaces the cache entry of each fetched
\* identifier by the fetched record and leaves the other entries, so the
\* same answer applied once more leaves the same cache.
C31_ReadIdempotent ==
    /\ (last.op = "read" /\ last.via = "local") =>
           IF last.pre.ids = <<>>
           THEN last.out = "this" /\ pending = last.pre.pending
           ELSE /\ last.out = "awaiting"
                /\ \E f \in FieldLists :
                      pending = last.pre.pending (+) SetToBag({[op |-> "read", sent |-> last.pre.ids, fields |-> f]})
    /\ (last.op = "read" /\ last.via = "gateway" /\ last.out = "this") =>
           /\ cache = Replaced(last.pre.cache, last.data)
           /\ Replaced(cache, last.data) = cache
           /\ loaded

\* A read of a loaded RecordSet was answered, and a field that the earlier
\* fetch had cached for a record is gone from its entry.
C31_Witness ==
    /\ last.op = "read"
    /\ last.via = "gateway"
    /\ last.out = "this"
    /\ last.pre.loaded
    /\ \E i \in DOMAIN last.pre.cache :
          /\ "email" \in DOMAIN last.pre.cache[i]
          /\ i \in DOMAIN cache
          /\ "email" \notin DOMAIN cache[i]

\* The operations whose gateway calls are in flight in the bag.
InFlight(bag) == {r.op : r \in BagToSet(bag)}

\* C32: with a read and a write of the same RecordSet in flight, the state
\* is decided by the response applied last, whatever was issued or applied
\* before: an answered read leaves the RecordSet loaded with the rows of
\* that answer cached, a successful write leaves it unloaded with an empty
\* cache, and neither touches the call still in flight.
C32_LastResponseWins ==
    /\ (last.via = "gateway" /\ last.op = "read" /\ last.out = "this") =>
           /\ loaded
           /\ \A k \in DOMAIN last.data :
                 "id" \in DOMAIN last.data[k] => cache[last.data[k]["id"].n] = last.data[k]
           /\ \E r \in BagToSet(last.pre.pending) : r.op = "read" /\ pending = last.pre.pending (-) SetToBag({r})
    /\ (last.via = "gateway" /\ last.op = "write" /\ last.out = "true") =>
           /\ ~loaded
           /\ cache = EmptyMap
           /\ \E r \in BagToSet(last.pre.pending) : r.op = "write" /\ pending = last.pre.pending (-) SetToBag({r})

\* A read was answered with rows while a write was in flight beside it, on
\* an unloaded RecordSet, and left it loaded.
C32_Witness ==
    /\ last.via = "gateway"
    /\ last.op = "read"
    /\ last.out = "this"
    /\ last.data # <<>>
    /\ InFlight(last.pre.pending) = {"read", "write"}
    /\ InFlight(pending) = {"write"}
    /\ ~last.pre.loaded
    /\ loaded
    /\ cache # EmptyMap

\* C34: under any interleaving of read, write and unlink and of their
\* responses, a RecordSet that is not loaded has an empty cache; so have the
\* RecordSets that iteration, indexed access and withContext make from it.
C34_UnloadedHasEmptyCache ==
    /\ ~loaded => cache = EmptyMap
    /\ \A k \in DOMAIN last.kids : ~last.kids[k].loaded => last.kids[k].cache = EmptyMap
    /\ ~last.res.child.loaded => last.res.child.cache = EmptyMap

\* An unlink succeeded on a loaded RecordSet whose cache held rows, while a
\* read of it was in flight.
C34_Witness ==
    /\ last.op = "unlink"
    /\ last.via = "gateway"
    /\ last.out = "true"
    /\ last.pre.loaded
    /\ last.pre.cache # EmptyMap
    /\ InFlight(pending) = {"read"}
    /\ ~loaded
    /\ cache = EmptyMap

\* C35: with a gateway that returns records only for the identifiers it was
\* asked for, every key of the cache is one of the RecordSet's current
\* identifiers, also when the answer of a read arrives after a successful
\* unlink of the same RecordSet.
C35_CacheKeysAreIds ==
    DOMAIN cache \subseteq Range(ids)

\* ----------------------------------------------------------------------
\* a RecordSet and its single-record RecordSets: properties
\* ----------------------------------------------------------------------

\* C37: the answer to a write or an unlink of a RecordSet changes isLoaded,
\* cache and ids of that RecordSet only: the single-record RecordSets made
\* from it by iteration or indexed access keep theirs, and the answer to a
\* write or an unlink of such a RecordSet leaves those of its parent.
C37_WriteUnlinkChangeOneInstance ==
    [][ \A r \in BagToSet(rcalls) :
           (rcalls' = rcalls (-) SetToBag({r}) /\ r.op \in {"write", "unlink"}) =>
              /\ Len(rsets') = Len(rsets)
              /\ \A k \in DOMAIN rsets : k # r.set => Observed(rsets'[k]) = Observed(rsets[k])
      ]_vars

\* The parent was unlinked with success after a single-record RecordSet was
\* made from it while loaded: the parent is empty and unloaded, the other
\* still holds its identifier and its cached record.
C37_Witness ==
    /\ Len(rsets) = 2
    /\ rsets[1].ids = <<>>
    /\ rsets[1].idsRef = 0 - 1
    /\ ~rsets[1].loaded
    /\ rsets[1].cache = EmptyMap
    /\ Len(rsets[2].ids) = 1
    /\ rsets[2].loaded
    /\ rsets[2].ids[1] \in DOMAIN rsets[2].cache

\* ----------------------------------------------------------------------
\* call chains on one Environment: properties
\* ----------------------------------------------------------------------

\* C36: however the call chains that share an Environment interleave, a
\* Model is created for a name only when the registry holds none for it,
\* the Model registered for a name is never replaced, and every
\* env.model(t) call returns the registered one: at most one Model exists
\* per name.
C36_OneModelPerName ==
    [][ /\ \A e \in DOMAIN envs : \A name \in DOMAIN envs[e].registry :
              /\ name \in DOMAIN envs'[e].registry
              /\ envs'[e].registry[name] = envs[e].registry[name]
        /\ \A m \in (DOMAIN models') \ (DOMAIN models) :
              /\ models'[m].name \notin DOMAIN envs[models'[m].env].registry
              /\ envs'[models'[m].env].registry[models'[m].name] = m
        /\ \A e \in DOMAIN envs' : \A name \in EnvModelNames : Cardinality(ModelsOf(e, name)') <= 1
        /\ (clast' # clast /\ clast'.op = "model") =>
              /\ clast'.out = "done"
              /\ clast'.ret = RetModel(envs'[clast'.inp.e].registry[clast'.inp.name])
      ]_vars

\* While two reads issued through the Model of a name are awaited, another
\* env.model call for that name returned the same Model, the only one of
\* its name, next to the Model of another name.
C36_Witness ==
    /\ BagCardinality(rcalls) = 2
    /\ Len(rsets) = 1
    /\ clast.op = "model"
    /\ clast.out = "done"
    /\ clast.ret.n = rsets[1].model
    /\ ModelsOf(1, clast.inp.name) = {rsets[1].model}
    /\ Len(models) = 2

\* ----------------------------------------------------------------------
\* logout and the logins in flight: properties
\* ----------------------------------------------------------------------

\* C38: once a logout() has completed, the client becomes authenticated
\* again only by the success of a login() invoked after that completion; the
\* answer to a login that was in flight when the logout completed does not
\* authenticate it.
C38_NoLoginAcrossLogout ==
    [][ (curEnv = 0 /\ curEnv' # 0) =>
           \E k \in DOMAIN wire :
              /\ wire[k].endpoint = "/web/session/authenticate"
              /\ ~wire[k].early
              /\ wire' = WireRemove(k)
      ]_vars

\* ----------------------------------------------------------------------
\* the connector: properties
\* ----------------------------------------------------------------------

\* C33: every failure of JsonRpcConnector.call, whether an error envelope, a
\* failure of the transport or anything else thrown, reaches the caller as
\* an OdooRpcError, and the call that failed leaves the stored session
\* identifier as it was.
C33_ConnectorFailure ==
    [][ (clast' # clast /\ clast'.op = "call" /\ clast'.inp.name \in {"envelope", "http", "other"}) =>
            /\ clast'.out = "err_rpc"
            /\ clast'.ret.kind = "error"
            /\ clast'.reply.kind = "error"
            /\ connector'.sessionId = connector.sessionId
      ]_vars

\* A response that carried an error envelope and a session cookie has
\* failed the call, and the connector holds the session of an earlier
\* response.
C33_Witness ==
    /\ clast.op = "call"
    /\ clast.inp.name = "envelope"
    /\ clast.out = "err_rpc"
    /\ clast.ret = Raised(200)
    /\ connector.sessionId = "s1"
    /\ connector.sessionCookie = ""

\* C39: once clearSession() has run, getSessionId() is undefined, and a
\* request built while it is undefined (no response has set a session
\* since) carries no Cookie header.
C39_ClearedSessionSendsNoCookie ==
    /\ clast.op = "clearSession" => connector.sessionId = ""
    /\ \A k \in DOMAIN wire : wire[k].sid = "" => wire[k].cookie = ""

====
